---- MODULE Spec2Model ----
(***************************************************************************)
(* Lexer and recursive-descent parser of the GDScript toolkit              *)
(* (package parser: lexer, token.go, parser.go; package ast).              *)
(*                                                                         *)
(* Source text is a sequence of one-character strings (ASCII only, so a    *)
(* rune is one byte and byte offsets are character offsets).  Go's 0-based *)
(* positions are kept; input[i] of the Go code is l.input[i + 1] here.     *)
(* A Go run-time panic (slice bounds out of range) is the flag `panicked`. *)
(***************************************************************************)
EXTENDS Integers, Sequences, FiniteSets, TLC

VARIABLES
    input,      \* the source text handed to NewLexer / NewParser
    lx,         \* the Lexer struct
    out,        \* tokens returned so far by NextToken (lexer runs)
    last,       \* per NextToken call: what the newline case did (lexer runs)
    mode,       \* Parser.errorMode
    phase,      \* "lex" | "new" | "ready" | "done"
    ps,         \* the Parser struct (lexer, currentToken, peekToken, errors)
    tree,       \* the value returned by Parse
    walk,       \* a run of ast.Walk: the calls still to make and the Visit calls made
    lint,       \* a run of LintASTWithSource: directives, rule findings, result
    fmt,        \* a run of the formatter: file path, texts produced, what failed
    fnode,      \* an ast.Function under AddStatement / AddSubStatement calls
    job         \* a run of LintFiles: workers, mutex, wait group, result map

vars == <<input, lx, out, last, mode, phase, ps, tree, walk, lint, fmt, fnode, job>>

(***************************************************************************)
(* Characters                                                              *)
(***************************************************************************)
NUL == "NUL"    \* rune 0, the lexer's end-of-input marker

Letters == {"a", "b", "c", "d", "e", "f", "g", "h", "i", "j", "k", "l", "m",
            "n", "o", "p", "q", "r", "s", "t", "u", "v", "w", "x", "y", "z",
            "A", "B", "C", "D", "E", "F", "G", "H", "I", "J", "K", "L", "M",
            "N", "O", "P", "Q", "R", "S", "T", "U", "V", "W", "X", "Y", "Z"}

Digits == {"0", "1", "2", "3", "4", "5", "6", "7", "8", "9"}

isLetter(ch) == ch \in Letters

isDigit(ch) == ch \in Digits

isHexDigit(ch) == isDigit(ch) \/ ch \in {"a", "b", "c", "d", "e", "f"}
                              \/ ch \in {"A", "B", "C", "D", "E", "F"}

isBinDigit(ch) == ch = "0" \/ ch = "1"

(***************************************************************************)
(* Tokens (token.go)                                                       *)
(***************************************************************************)
Token(type, literal, line, column, offset) ==
    [Type |-> type, Literal |-> literal, Line |-> line, Column |-> column,
     Offset |-> offset]

\* The zero Token{} a fresh Parser holds before its first nextToken.
ZeroToken == Token("", <<>>, 0, 0, 0)

keywords ==
    {<<<<"f","u","n","c">>, "FUNC">>,
     <<<<"c","l","a","s","s">>, "CLASS">>,
     <<<<"e","x","t","e","n","d","s">>, "EXTENDS">>,
     <<<<"c","l","a","s","s","_","n","a","m","e">>, "CLASS_NAME">>,
     <<<<"v","a","r">>, "VAR">>,
     <<<<"c","o","n","s","t">>, "CONST">>,
     <<<<"s","t","a","t","i","c">>, "STATIC">>,
     <<<<"e","n","u","m">>, "ENUM">>,
     <<<<"s","i","g","n","a","l">>, "SIGNAL">>,
     <<<<"p","a","s","s">>, "PASS">>,
     <<<<"r","e","t","u","r","n">>, "RETURN">>,
     <<<<"i","f">>, "IF">>,
     <<<<"e","l","i","f">>, "ELIF">>,
     <<<<"e","l","s","e">>, "ELSE">>,
     <<<<"f","o","r">>, "FOR">>,
     <<<<"w","h","i","l","e">>, "WHILE">>,
     <<<<"b","r","e","a","k">>, "BREAK">>,
     <<<<"c","o","n","t","i","n","u","e">>, "CONTINUE">>,
     <<<<"m","a","t","c","h">>, "MATCH">>,
     <<<<"w","h","e","n">>, "WHEN">>,
     <<<<"i","n">>, "IN">>,
     <<<<"i","s">>, "IS">>,
     <<<<"a","s">>, "AS">>,
     <<<<"a","w","a","i","t">>, "AWAIT">>,
     <<<<"b","r","e","a","k","p","o","i","n","t">>, "BREAKPOINT">>,
     <<<<"t","r","u","e">>, "TRUE">>,
     <<<<"f","a","l","s","e">>, "FALSE">>,
     <<<<"n","u","l","l">>, "NULL">>,
     <<<<"s","e","l","f">>, "SELF">>,
     <<<<"g","e","t">>, "GET">>,
     <<<<"s","e","t">>, "SET">>,
     <<<<"a","n","d">>, "AND">>,
     <<<<"o","r">>, "OR">>,
     <<<<"n","o","t">>, "NOT">>}

LookupIdent(ident) ==
    IF \E k \in keywords : k[1] = ident
    THEN (CHOOSE k \in keywords : k[1] = ident)[2]
    ELSE "IDENT"

(***************************************************************************)
(* Lexer                                                                   *)
(***************************************************************************)
\* Go's s[lo:hi] is legal iff 0 <= lo <= hi <= len(s); otherwise it panics.
SliceOK(s, lo, hi) == 0 <= lo /\ lo <= hi /\ hi <= Len(s)

Slice(s, lo, hi) == SubSeq(s, lo + 1, hi)

readChar(l) ==
    LET atEnd == l.readPosition >= Len(l.input)
        c     == IF atEnd THEN NUL ELSE l.input[l.readPosition + 1]
        l1    == [l EXCEPT !.position = l.readPosition,
                           !.ch = c,
                           !.readPosition = IF atEnd THEN @ ELSE @ + 1]
    IN  IF c = "\n"
        THEN [l1 EXCEPT !.line = @ + 1, !.column = 1]
        ELSE [l1 EXCEPT !.column = @ + 1]

peekChar(l) ==
    IF l.readPosition >= Len(l.input) THEN NUL ELSE l.input[l.readPosition + 1]

\* NewLexer starting from an empty indentation stack
NewLexerEmptyStack(in) ==
    readChar([input |-> in, position |-> 0, readPosition |-> 0, ch |-> NUL,
              line |-> 1, column |-> 1, indentStack |-> <<>>,
              tokens |-> <<>>, panicked |-> FALSE])

NewLexer(in) ==
    readChar([input |-> in, position |-> 0, readPosition |-> 0, ch |-> NUL,
              line |-> 1, column |-> 1, indentStack |-> <<0>>,
              tokens |-> <<>>, panicked |-> FALSE])

newToken(l, tokenType, literal) ==
    Token(tokenType, literal, l.line, l.column, l.position)

\* The token handed out while a panic unwinds the callers; it never reaches
\* a caller of the Go code.
PanicToken == Token("EOF", <<"panic">>, 0, 0, 0)

Panic(l) == [l |-> [l EXCEPT !.panicked = TRUE], tok |-> PanicToken]

\* for l.ch in S { l.readChar() }
RECURSIVE readWhile(_, _)
readWhile(l, S) == IF l.ch \in S THEN readWhile(readChar(l), S) ELSE l

IdentChars == Letters \cup Digits \cup {"_"}

skipWhitespace(l) == readWhile(l, {" ", "\t", "\r"})

\* returns the lexer after the identifier; the literal is input[pos:l.position]
readIdentifier(l) == readWhile(l, IdentChars)

RECURSIVE readComment(_)
readComment(l) ==
    IF l.ch # "\n" /\ l.ch # NUL THEN readComment(readChar(l)) ELSE l

RECURSIVE readStringLoop(_, _)
readStringLoop(l, quote) ==
    IF l.ch = "\\" THEN readStringLoop(readChar(readChar(l)), quote)
    ELSE IF l.ch = quote \/ l.ch = NUL THEN l
    ELSE LET l1 == IF l.ch = "\n"
                   THEN [l EXCEPT !.line = @ + 1, !.column = 1]
                   ELSE l
         IN  readStringLoop(readChar(l1), quote)

\* the lexer after the literal; the literal is input[position:l.position]
readString(l, quote) ==
    LET l1 == readStringLoop(readChar(l), quote)
    IN  IF l1.ch = quote THEN readChar(l1) ELSE l1

RECURSIVE readRawStringLoop(_, _)
readRawStringLoop(l, quote) ==
    IF l.ch = quote \/ l.ch = NUL THEN l
    ELSE LET l1 == IF l.ch = "\n"
                   THEN [l EXCEPT !.line = @ + 1, !.column = 1]
                   ELSE l
         IN  readRawStringLoop(readChar(l1), quote)

\* The upper bound of the slice readRawString returns.
RawSliceEnd(l) == l.position - 1

\* [l, ok, str]: str is input[position : l.position-1]; ok is FALSE when
\* that slice expression panics.
readRawString(l, quote) ==
    LET l1 == readRawStringLoop(l, quote)
        l2 == IF l1.ch = quote THEN readChar(l1) ELSE l1
        ok == SliceOK(l.input, l.position, RawSliceEnd(l2))
    IN  [l |-> l2, ok |-> ok,
         str |-> IF ok THEN Slice(l.input, l.position, RawSliceEnd(l2)) ELSE <<>>]

readNumber(l) ==
    LET position == l.position
        DU  == Digits \cup {"_"}
        lit(le) == Slice(l.input, position, le.position)
        ok(le)  == SliceOK(l.input, position, le.position)
        fin(le, type) ==
            IF ok(le) THEN [l |-> le, tok |-> newToken(le, type, lit(le))]
            ELSE Panic(le)
    IN  IF l.ch = "0" /\ peekChar(l) \in {"x", "X"}
        THEN fin(readWhile(readChar(readChar(l)),
                           {c \in IdentChars : isHexDigit(c)} \cup {"_"}), "HEX")
        ELSE IF l.ch = "0" /\ peekChar(l) \in {"b", "B"}
        THEN fin(readWhile(readChar(readChar(l)), {"0", "1", "_"}), "BIN")
        ELSE
          LET l1 == readWhile(l, DU)
              fl1 == l1.ch = "." /\ isDigit(peekChar(l1))
              l2 == IF fl1 THEN readWhile(readChar(l1), DU) ELSE l1
              fl2 == l2.ch \in {"e", "E"}
                     /\ (isDigit(peekChar(l2)) \/ peekChar(l2) \in {"+", "-"})
              l3 == IF fl2
                    THEN LET a == readChar(l2)
                             b == IF a.ch \in {"+", "-"} THEN readChar(a) ELSE a
                         IN  readWhile(b, DU)
                    ELSE l2
          IN  fin(l3, IF fl1 \/ fl2 THEN "FLOAT" ELSE "INT")

TabWidth == 4

\* The width of the run of spaces and tabs at l.ch: [l, indent].
RECURSIVE countIndent(_, _)
countIndent(l, indent) ==
    IF l.ch = " " THEN countIndent(readChar(l), indent + 1)
    ELSE IF l.ch = "\t" THEN countIndent(readChar(l), indent + TabWidth)
    ELSE [l |-> l, indent |-> indent]

Top(stack) == stack[Len(stack)]

\* the loop popping the levels without queueing their DEDENT tokens
RECURSIVE popDedentsUnqueued(_, _)
popDedentsUnqueued(l, indent) ==
    IF Len(l.indentStack) > 0 /\ indent < Top(l.indentStack)
    THEN popDedentsUnqueued([l EXCEPT
                               !.indentStack = SubSeq(@, 1, Len(@) - 1)],
                            indent)
    ELSE l

\* for len(stack) > 0 && indent < top { pop; queue DEDENT }
RECURSIVE popDedents(_, _)
popDedents(l, indent) ==
    IF Len(l.indentStack) > 0 /\ indent < Top(l.indentStack)
    THEN popDedents([l EXCEPT
                       !.indentStack = SubSeq(@, 1, Len(@) - 1),
                       !.tokens = Append(@, newToken(l, "DEDENT", <<>>))],
                    indent)
    ELSE l

\* handleIndentation closing a single level however far the width drops
handleIndentationOnePop(l, indent) ==
    LET currentIndent == Top(l.indentStack)
    IN  IF indent > currentIndent
        THEN [l EXCEPT !.indentStack = Append(@, indent),
                       !.tokens = Append(@, newToken(l, "INDENT", <<>>))]
        ELSE IF indent < currentIndent
        THEN [l EXCEPT !.indentStack = SubSeq(@, 1, Len(@) - 1),
                       !.tokens = Append(@, newToken(l, "DEDENT", <<>>))]
        ELSE l

handleIndentation(l, indent) ==
    LET currentIndent == Top(l.indentStack)
    IN  IF indent > currentIndent
        THEN [l EXCEPT !.indentStack = Append(@, indent),
                       !.tokens = Append(@, newToken(l, "INDENT", <<>>))]
        ELSE IF indent < currentIndent
        THEN LET l1 == popDedents(l, indent)
             IN  IF Len(l1.indentStack) = 0 \/ indent # Top(l1.indentStack)
                 THEN [l1 EXCEPT !.tokens =
                         Append(@, newToken(l1, "ILLEGAL",
                                            <<"invalid indentation">>))]
                 ELSE l1
        ELSE l

\* a one-character token: newToken, then the readChar that ends NextToken
one(l, type) == [l |-> readChar(l), tok |-> newToken(l, type, <<l.ch>>)]

\* a two-character token: readChar, newToken, then the final readChar
two(l, type, second) ==
    LET l1 == readChar(l)
    IN  [l |-> readChar(l1), tok |-> newToken(l1, type, <<l.ch, second>>)]

\* a three-character token ("**=", "<<=", ">>=")
three(l, type, second, third) ==
    LET l2 == readChar(readChar(l))
    IN  [l |-> readChar(l2), tok |-> newToken(l2, type, <<l.ch, second, third>>)]

\* the token of a scanner that slices input[start.position : end.position]
sliced(start, end, type) ==
    IF SliceOK(start.input, start.position, end.position)
    THEN [l |-> end,
          tok |-> Token(type, Slice(start.input, start.position, end.position),
                        start.line, start.column, start.position)]
    ELSE Panic(end)

identToken(l) ==
    LET e == readIdentifier(l)
    IN  IF SliceOK(l.input, l.position, e.position)
        THEN [l |-> e,
              tok |-> Token(LookupIdent(Slice(l.input, l.position, e.position)),
                            Slice(l.input, l.position, e.position),
                            l.line, l.column, l.position)]
        ELSE Panic(e)

rawStringToken(l) ==
    LET l1    == readChar(l)          \* consume 'r'
        quote == l1.ch
        l2    == readChar(l1)         \* consume quote
        r     == readRawString(l2, quote)
    IN  IF r.ok
        THEN [l |-> r.l,
              tok |-> Token("RSTRING", <<"r", quote>> \o r.str \o <<quote>>,
                            r.l.line, l.column, l.position)]
        ELSE Panic(r.l)

newlineToken(l) ==
    LET tok == newToken(l, "NL", <<"\n">>)
        c   == countIndent(readChar(l), 0)
    IN  [l |-> handleIndentation(c.l, c.indent), tok |-> tok]

\* case 0 falling through to the readChar that ends NextToken
eofTokenThenReadChar(l) ==
    [l |-> readChar(l), tok |-> Token("EOF", <<>>, l.line, l.column, l.position)]

\* case 0 of the switch: the EOF token is returned at once, nothing is read
eofToken(l) ==
    [l |-> l, tok |-> Token("EOF", <<>>, l.line, l.column, l.position)]

\* the switch of NextToken, entered with an empty queue after skipWhitespace
scanToken(l) ==
    LET pk == peekChar(l)
    IN  CASE l.ch = "+" -> IF pk = "=" THEN two(l, "PLUSEQ", "=") ELSE one(l, "PLUS")
          [] l.ch = "-" -> IF pk = "=" THEN two(l, "MINUSEQ", "=")
                           ELSE IF pk = ">" THEN two(l, "ARROW", ">")
                           ELSE one(l, "MINUS")
          [] l.ch = "*" -> IF pk = "*"
                           THEN IF peekChar(readChar(l)) = "="
                                THEN three(l, "POWEREQ", "*", "=")
                                ELSE two(l, "POWER", "*")
                           ELSE IF pk = "=" THEN two(l, "ASTERISKEQ", "=")
                           ELSE one(l, "ASTERISK")
          [] l.ch = "/" -> IF pk = "=" THEN two(l, "SLASHEQ", "=") ELSE one(l, "SLASH")
          [] l.ch = "%" -> IF pk = "=" THEN two(l, "PERCENTEQ", "=") ELSE one(l, "PERCENT")
          [] l.ch = "&" -> IF pk = "&" THEN two(l, "AMPAMP", "&")
                           ELSE IF pk = "=" THEN two(l, "AMPEQ", "=")
                           ELSE one(l, "BITAND")
          [] l.ch = "|" -> IF pk = "|" THEN two(l, "PIPEPIPE", "|")
                           ELSE IF pk = "=" THEN two(l, "PIPEEQ", "=")
                           ELSE one(l, "BITOR")
          \* CARET and BITXOR are the same TokenType "^"
          [] l.ch = "^" -> IF pk = "=" THEN two(l, "CARETEQ", "=") ELSE one(l, "CARET")
          [] l.ch = "~" -> one(l, "BITNOT")
          [] l.ch = "<" -> IF pk = "=" THEN two(l, "LTE", "=")
                           ELSE IF pk = "<"
                           THEN IF peekChar(readChar(l)) = "="
                                THEN three(l, "LTLTEQ", "<", "=")
                                ELSE two(l, "LTLT", "<")
                           ELSE one(l, "LT")
          [] l.ch = ">" -> IF pk = "=" THEN two(l, "GTE", "=")
                           ELSE IF pk = ">"
                           THEN IF peekChar(readChar(l)) = "="
                                THEN three(l, "GTGTEQ", ">", "=")
                                ELSE two(l, "GTGT", ">")
                           ELSE one(l, "GT")
          [] l.ch = "=" -> IF pk = "=" THEN two(l, "EQ", "=") ELSE one(l, "ASSIGN")
          [] l.ch = "!" -> IF pk = "=" THEN two(l, "NOT_EQ", "=") ELSE one(l, "BANG")
          [] l.ch = "." -> one(l, "DOT")
          [] l.ch = "," -> one(l, "COMMA")
          [] l.ch = ":" -> IF pk = "=" THEN two(l, "COLONASSIGN", "=") ELSE one(l, "COLON")
          [] l.ch = ";" -> one(l, "SEMICOLON")
          [] l.ch = "(" -> one(l, "LPAREN")
          [] l.ch = ")" -> one(l, "RPAREN")
          [] l.ch = "{" -> one(l, "LBRACE")
          [] l.ch = "}" -> one(l, "RBRACE")
          [] l.ch = "[" -> one(l, "LBRACKET")
          [] l.ch = "]" -> one(l, "RBRACKET")
          [] l.ch = "@" -> one(l, "AT")
          [] l.ch = "$" -> one(l, "DOLLAR")
          [] l.ch = "#" -> sliced(l, readComment(l), "COMMENT")
          [] l.ch \in {"\"", "'"} -> sliced(l, readString(l, l.ch), "STRING")
          [] l.ch = "r" -> IF pk \in {"\"", "'"} THEN rawStringToken(l)
                           ELSE identToken(l)
          [] l.ch = "\n" -> newlineToken(l)
          [] l.ch = NUL -> eofToken(l)
          [] OTHER -> IF isLetter(l.ch) \/ l.ch = "_" THEN identToken(l)
                      ELSE IF isDigit(l.ch)
                      THEN readNumber(l)
                      ELSE one(l, "ILLEGAL")

\* NextToken handing out the newest queued token first
NextTokenNewestFirst(l) ==
    IF Len(l.tokens) > 0
    THEN [l |-> [l EXCEPT !.tokens = SubSeq(@, 1, Len(@) - 1)],
          tok |-> l.tokens[Len(l.tokens)]]
    ELSE scanToken(skipWhitespace(l))

\* [l, tok]: the lexer after the call and the token returned
NextToken(l) ==
    IF Len(l.tokens) > 0
    THEN [l |-> [l EXCEPT !.tokens = Tail(@)], tok |-> Head(l.tokens)]
    ELSE scanToken(skipWhitespace(l))

\* the elements of a sequence
Range(seq) == {seq[i] : i \in DOMAIN seq}

\* A Go local variable: v is computed once, before the code that follows runs,
\* and named in that code (x := v; Op(x)).  The guard is always true: it makes
\* the evaluation of v precede that of Op(v), as the statement order does.
Bind(v, Op(_)) == CASE {v} # {} -> Op(v)

\* one more call of NextToken: the lexer afterwards, and the token returned
\* (PanicToken when the call panics) appended to those returned before
tapeStep(s) ==
    Bind(NextToken(s.l), LAMBDA r :
    [l |-> r.l,
     acc |-> Append(s.acc, IF r.l.panicked THEN PanicToken ELSE r.tok)])

\* the calls go on until one returns EOF
RECURSIVE tapeRun(_)
tapeRun(s) ==
    IF s.acc # <<>> /\ s.acc[Len(s.acc)].Type = "EOF"
    THEN s.acc
    ELSE tapeRun(tapeStep(s))

\* The tokens the successive calls of NextToken return from lexer l on: up to
\* the first EOF, or up to the call that panics (PanicToken, of type EOF).
Tape(l) == tapeRun([l |-> l, acc |-> <<>>])

\* The lexer as the parser holds it.  NextToken reads and changes nothing but
\* the lexer, and the parser reaches its lexer through NextToken alone, so
\* the k-th call returns the k-th token of the tape; the EOF case changes
\* nothing in the lexer, so every call after the first EOF returns that EOF
\* again.  The parser's lexer is kept as the tape and the number of calls
\* made.
Replay(l) == [tape |-> Tape(l), calls |-> 0]

\* one call of NextToken on a replayed lexer: [l, tok]
Pull(l) ==
    Bind(IF l.calls < Len(l.tape) THEN l.calls + 1 ELSE Len(l.tape), LAMBDA k :
    [l |-> [l EXCEPT !.calls = k], tok |-> l.tape[k]])

(***************************************************************************)
(* AST values (package ast).  A Go nil interface / nil pointer is Nil; an  *)
(* interface holding a nil pointer of type T (a *T returned through the    *)
(* ast.Statement interface) is NilPtr(T), which compares unequal to nil.   *)
(***************************************************************************)
Nil == [kind |-> "nil"]

NilPtr(type) == [kind |-> "nilptr", type |-> type]

PosOf(tok) == [Line |-> tok.Line, Column |-> tok.Column, Offset |-> tok.Offset]

(***************************************************************************)
(* Parser (parser.go).  Every routine takes the Parser struct p and        *)
(* returns [p |-> the struct afterwards, v |-> the Go return value].       *)
(***************************************************************************)
R(p, v) == [p |-> p, v |-> v]

ErrorModeStrict == "strict"

ErrorModePanic == "panic"

\* The struct carries two history fields that the Go struct does not have:
\* syncStops, the token each call of synchronize stopped on, and dispatched,
\* the token each statement routine was entered on.
\*
\* A panic of NextToken unwinds every caller: from then on the parser only
\* sees PanicToken, of type EOF, and the result of the call in progress is
\* never delivered.
nextToken(p) ==
    Bind(Pull(p.lexer), LAMBDA r :
    [p EXCEPT !.currentToken = p.peekToken,
                  !.peekToken = r.tok,
                  !.lexer = r.l,
                  !.panicked = @ \/ r.tok = PanicToken])

NewParser(in) ==
    Bind(Replay(NewLexer(in)), LAMBDA l :
    Bind([lexer |-> l, currentToken |-> ZeroToken,
               peekToken |-> ZeroToken, errors |-> <<>>,
               errorMode |-> ErrorModeStrict, panicked |-> FALSE,
               syncStops |-> <<>>, dispatched |-> <<>>], LAMBDA p :
    Bind(nextToken(p), LAMBDA p1 : nextToken(p1))))

NewParserWithOptions(in, errorMode) ==
    [NewParser(in) EXCEPT !.errorMode = errorMode]

\* append Error{Line, Column, Message} for token tok
addError(p, tok, msg) ==
    [p EXCEPT !.errors = Append(@, [Line |-> tok.Line, Column |-> tok.Column,
                                    Message |-> msg])]

peekError(p, t) ==
    addError(p, p.peekToken, <<"expected next token to be", t, "got", p.peekToken.Type>>)

SyncKeywords == {"CLASS", "FUNC", "VAR", "CONST", "IF", "FOR", "WHILE", "MATCH",
                 "RETURN"}

RECURSIVE synchronizeLoop(_)
synchronizeLoop(p) ==
    IF p.currentToken.Type = "EOF" THEN p
    ELSE IF p.currentToken.Type \in {"SEMICOLON", "NL"} THEN p
    ELSE IF p.currentToken.Type \in SyncKeywords THEN p
    ELSE synchronizeLoop(nextToken(p))

synchronize(p) ==
    Bind(synchronizeLoop(nextToken(p)), LAMBDA q :
    [q EXCEPT !.syncStops = Append(@, q.currentToken)])

\* if p.errorMode == ErrorModePanic { p.synchronize() }
recover(p) == IF p.errorMode = ErrorModePanic THEN synchronize(p) ELSE p

\* [p, v]: v is the bool returned
expectPeek(p, t) ==
    IF p.peekToken.Type = t THEN R(nextToken(p), TRUE)
    ELSE R(recover(peekError(p, t)), FALSE)

RECURSIVE skipNewlines(_)
skipNewlines(p) ==
    IF p.currentToken.Type \in {"NL", "INDENT"} THEN skipNewlines(nextToken(p))
    ELSE p

PREC_LOWEST == 0
PREC_ASSIGN == 1
PREC_LOGICAL == 2
PREC_COMPARISON == 3
PREC_BITWISE == 4
PREC_SUM == 5
PREC_PRODUCT == 6
PREC_PREFIX == 7
PREC_CALL == 8
PREC_INDEX == 9
PREC_DOT == 10

\* the map precedences, with PREC_LOWEST for a type that is not a key
precedences(type) ==
    CASE type \in {"ASSIGN", "PLUSEQ", "MINUSEQ", "ASTERISKEQ", "SLASHEQ",
                   "PERCENTEQ", "AMPEQ", "PIPEEQ", "CARETEQ", "LTLTEQ",
                   "GTGTEQ", "POWEREQ"} -> PREC_ASSIGN
      [] type \in {"OR", "AND", "PIPEPIPE", "AMPAMP"} -> PREC_LOGICAL
      [] type \in {"EQ", "NOT_EQ", "LT", "GT", "LTE", "GTE"} -> PREC_COMPARISON
      [] type \in {"BITAND", "BITOR", "CARET", "LTLT", "GTGT"} -> PREC_BITWISE
      [] type \in {"PLUS", "MINUS"} -> PREC_SUM
      [] type \in {"ASTERISK", "SLASH", "PERCENT", "POWER"} -> PREC_PRODUCT
      [] type = "LPAREN" -> PREC_CALL
      [] type = "LBRACKET" -> PREC_INDEX
      [] type = "DOT" -> PREC_DOT
      [] OTHER -> PREC_LOWEST

peekPrecedence(p) == precedences(p.peekToken.Type)

curPrecedence(p) == precedences(p.currentToken.Type)

\* the peek types that end the infix loop of parseExpression
InfixStop == {"SEMICOLON", "NL", "EOF", "COLON", "RPAREN", "COMMA", "RBRACE",
              "RBRACKET"}

\* the switch that sets isInfixOp in parseExpression
InfixOps == {"PLUS", "MINUS", "ASTERISK", "SLASH", "PERCENT", "POWER",
             "EQ", "NOT_EQ", "LT", "GT", "LTE", "GTE", "AND", "OR",
             "ASSIGN", "PLUSEQ", "MINUSEQ", "ASTERISKEQ", "SLASHEQ",
             "LPAREN", "LBRACKET", "DOT"}

\* the loop test `precedence >= peekPrec` that breaks out of the infix loop
\* the loop test without its equality: operators of equal precedence nest
\* to the right
infixBreakStrict(precedence, peekPrec) == precedence > peekPrec

infixBreak(precedence, peekPrec) == precedence >= peekPrec

parseIdentifier(p) ==
    [kind |-> "Identifier", Pos |-> PosOf(p.currentToken),
     Value |-> p.currentToken.Literal]

parseIntegerLiteral(p) ==
    [kind |-> "NumberLiteral", Pos |-> PosOf(p.currentToken), IsInt |-> TRUE,
     Original |-> p.currentToken.Literal]

parseFloatLiteral(p) ==
    [kind |-> "NumberLiteral", Pos |-> PosOf(p.currentToken), IsInt |-> FALSE,
     Original |-> p.currentToken.Literal]

parseStringLiteral(p) ==
    [kind |-> "StringLiteral", Pos |-> PosOf(p.currentToken),
     Value |-> p.currentToken.Literal]

parseBooleanLiteral(p) ==
    [kind |-> "BooleanLiteral", Pos |-> PosOf(p.currentToken),
     Value |-> p.currentToken.Type = "TRUE"]

parseNullLiteral(p) == [kind |-> "NullLiteral", Pos |-> PosOf(p.currentToken)]

RECURSIVE parseExpression(_, _)
RECURSIVE infixLoop(_, _, _)
RECURSIVE parseCallArguments(_)
RECURSIVE callArgumentsLoop(_, _)
RECURSIVE parseGroupedExpression(_)
RECURSIVE parsePrefixExpression(_)
RECURSIVE parseInfixExpression(_, _)
RECURSIVE parseConditionalExpression(_, _)

parseCallExpression(p, fn) ==
    Bind(parseCallArguments(p), LAMBDA r :
    R(r.p, [kind |-> "CallExpression", Pos |-> PosOf(p.currentToken),
                Function |-> fn, Arguments |-> r.v]))

\* for p.peekToken.Type == COMMA { nextToken; nextToken; append }
callArgumentsLoop(p, args) ==
    IF p.peekToken.Type = "COMMA"
    THEN Bind(parseExpression(nextToken(nextToken(p)), PREC_LOWEST), LAMBDA r :
         callArgumentsLoop(r.p, Append(args, r.v)))
    ELSE R(p, args)

\* v is the argument list, Nil for the nil slice returned on a missing ')'
parseCallArguments(p) ==
    IF p.peekToken.Type = "RPAREN" THEN R(nextToken(p), <<>>)
    ELSE Bind(parseExpression(nextToken(p), PREC_LOWEST), LAMBDA r1 :
         Bind(callArgumentsLoop(r1.p, <<r1.v>>), LAMBDA r2 :
         Bind(expectPeek(r2.p, "RPAREN"), LAMBDA e :
         IF ~e.v THEN R(e.p, Nil) ELSE R(e.p, r2.v))))

parseGroupedExpression(p) ==
    Bind(parseExpression(nextToken(p), PREC_LOWEST), LAMBDA r :
    IF r.v = Nil THEN R(r.p, Nil)
        ELSE Bind(expectPeek(r.p, "RPAREN"), LAMBDA e :
             IF ~e.v THEN R(e.p, Nil) ELSE R(e.p, r.v)))

parsePrefixExpression(p) ==
    Bind(parseExpression(nextToken(p), PREC_PREFIX), LAMBDA r :
    R(r.p, [kind |-> "PrefixExpression", Pos |-> PosOf(p.currentToken),
                Operator |-> p.currentToken.Literal, Right |-> r.v]))

parseInfixExpression(p, left) ==
    IF p.currentToken.Type = "LPAREN" THEN parseCallExpression(p, left)
    ELSE Bind(parseExpression(nextToken(p), curPrecedence(p)), LAMBDA r :
         R(r.p, [kind |-> "InfixExpression", Pos |-> PosOf(p.currentToken),
                     Left |-> left, Operator |-> p.currentToken.Literal,
                     Right |-> r.v]))

\* the step `p.nextToken() // consume 'if'` that opens parseConditionalExpression
consumeIf(p) == nextToken(p)

parseConditionalExpression(p, valueIfTrue) ==
    Bind(consumeIf(p), LAMBDA p1 :
    Bind(parseExpression(p1, PREC_LOWEST), LAMBDA c :
    IF c.v = Nil
        THEN R(addError(c.p, c.p.currentToken,
                 <<"expected condition expression in conditional expression">>), Nil)
        ELSE
          Bind(expectPeek(c.p, "ELSE"), LAMBDA e :
          IF ~e.v THEN R(e.p, Nil)
              ELSE
                Bind(parseExpression(nextToken(e.p), PREC_LOWEST), LAMBDA f :
                IF f.v = Nil
                    THEN R(addError(f.p, f.p.currentToken,
                             <<"expected expression after 'else' in conditional expression">>),
                           Nil)
                    ELSE IF valueIfTrue = Nil     \* valueIfTrue.Position() on nil
                    THEN R([f.p EXCEPT !.panicked = TRUE], Nil)
                    ELSE R(f.p, [kind |-> "ConditionalExpression",
                                 Pos |-> valueIfTrue.Pos, Condition |-> c.v,
                                 ValueIfTrue |-> valueIfTrue,
                                 ValueIfFalse |-> f.v])))))

infixLoop(p, leftExp, precedence) ==
    IF p.peekToken.Type \in InfixStop THEN R(p, leftExp)
    ELSE IF p.peekToken.Type = "IF"
    THEN Bind(parseConditionalExpression(p, leftExp), LAMBDA r :
         infixLoop(r.p, r.v, precedence))
    ELSE IF infixBreak(precedence, peekPrecedence(p)) THEN R(p, leftExp)
    ELSE IF p.peekToken.Type \notin InfixOps THEN R(p, leftExp)
    ELSE Bind(parseInfixExpression(nextToken(p), leftExp), LAMBDA r :
         infixLoop(r.p, r.v, precedence))

parseExpression(p, precedence) ==
    Bind(p.currentToken.Type, LAMBDA t :
    Bind(CASE t = "IDENT" -> R(p, parseIdentifier(p))
                 [] t = "INT" -> R(p, parseIntegerLiteral(p))
                 [] t = "FLOAT" -> R(p, parseFloatLiteral(p))
                 [] t = "STRING" -> R(p, parseStringLiteral(p))
                 [] t \in {"TRUE", "FALSE"} -> R(p, parseBooleanLiteral(p))
                 [] t = "NULL" -> R(p, parseNullLiteral(p))
                 [] t = "LPAREN" -> parseGroupedExpression(p)
                 [] t \in {"MINUS", "BANG"} -> parsePrefixExpression(p)
                 [] OTHER -> R(p, Nil), LAMBDA pre :
    IF pre.v = Nil THEN pre ELSE infixLoop(pre.p, pre.v, precedence)))

(***************************************************************************)
(* Statement nodes (ast/statement.go, function.go, class.go,               *)
(* control_flow.go)                                                        *)
(***************************************************************************)
NewVarStatement(pos, name, isTyped) ==
    [kind |-> "VarStatement", Pos |-> pos,
     Kind |-> IF isTyped THEN "func_var_typed" ELSE "func_var_stmt",
     Name |-> name, TypeHint |-> <<>>, Value |-> Nil, IsTyped |-> isTyped,
     IsConst |-> FALSE, IsInferred |-> FALSE]

SetValue(v, value) ==
    [v EXCEPT !.Value = value,
              !.Kind = IF v.IsConst
                       THEN IF v.IsTyped THEN "const_typed_assgnd" ELSE "const_assigned"
                       ELSE IF v.IsTyped THEN "func_var_typed_assgnd"
                            ELSE "func_var_assigned"]

SetTypeHint(v, typeHint) ==
    [v EXCEPT !.TypeHint = typeHint, !.IsTyped = TRUE,
              !.Kind = IF v.Value # Nil
                       THEN IF v.IsConst THEN "const_typed_assgnd"
                            ELSE "func_var_typed_assgnd"
                       ELSE IF v.IsConst THEN "const_typed" ELSE "func_var_typed"]

SetConst(v) ==
    [v EXCEPT !.IsConst = TRUE,
              !.Kind = IF v.IsTyped
                       THEN IF v.Value # Nil THEN "const_typed_assgnd" ELSE "const_typed"
                       ELSE IF v.Value # Nil THEN "const_assigned" ELSE "const_stmt"]

SetInferred(v) ==
    [v EXCEPT !.IsInferred = TRUE, !.IsTyped = TRUE,
              !.Kind = IF v.IsConst THEN "const_typed_assgnd" ELSE "func_var_assigned"]

NewFunction(name, pos) ==
    [kind |-> "Function", Pos |-> pos, Name |-> name, Parameters |-> <<>>,
     ReturnType |-> <<>>, Statements |-> <<>>, SubStatements |-> <<>>,
     IsStatic |-> FALSE]

AddParameter(f, param) == [f EXCEPT !.Parameters = Append(@, param)]

\* AddStatement that forgets the second append
AddStatementFlatOnly(f, statement) ==
    [f EXCEPT !.Statements = Append(@, statement)]

AddStatement(f, statement) ==
    [f EXCEPT !.Statements = Append(@, statement),
              !.SubStatements = Append(@, statement)]

AddSubStatement(f, statement) ==
    [f EXCEPT !.SubStatements = Append(@, statement)]

NewClass(name, pos) ==
    [kind |-> "Class", Pos |-> pos, Name |-> name, Extends |-> <<>>,
     SubClasses |-> <<>>, Functions |-> <<>>, Statements |-> <<>>]

AddSubClass(c, class) == [c EXCEPT !.SubClasses = Append(@, class)]

AddFunction(c, function) == [c EXCEPT !.Functions = Append(@, function)]

ClassAddStatement(c, statement) == [c EXCEPT !.Statements = Append(@, statement)]

NewIfStatement(pos, condition) ==
    [kind |-> "IfStatement", Pos |-> pos, Condition |-> condition,
     Consequence |-> <<>>, ElseCondition |-> <<>>, ElseBranches |-> <<>>,
     Alternative |-> <<>>]

AddElseIfBranch(i, condition, statements) ==
    [i EXCEPT !.ElseCondition = Append(@, condition),
              !.ElseBranches = Append(@, statements)]

NewForStatement(pos, iterator, iteratorPos, collection, isTyped) ==
    [kind |-> "ForStatement", Pos |-> pos,
     Kind |-> IF isTyped THEN "for_stmt_typed" ELSE "for_stmt",
     Iterator |-> iterator, IteratorPos |-> iteratorPos,
     Collection |-> collection, Body |-> <<>>, TypeHint |-> <<>>,
     IsTyped |-> isTyped]

NewWhileStatement(pos, condition) ==
    [kind |-> "WhileStatement", Pos |-> pos, Condition |-> condition,
     Body |-> <<>>]

NewMatchStatement(pos, value) ==
    [kind |-> "MatchStatement", Pos |-> pos, Value |-> value, Branches |-> <<>>]

NewMatchBranch(pos, pattern) ==
    [Pos |-> pos, Pattern |-> pattern, Guard |-> Nil, Body |-> <<>>,
     IsGuarded |-> FALSE]

(***************************************************************************)
(* Statement routines (parser.go)                                          *)
(***************************************************************************)
parsePassStatement(p) ==
    R(p, [kind |-> "PassStatement", Pos |-> PosOf(p.currentToken)])

parseBreakStatement(p) ==
    R(p, [kind |-> "BreakStatement", Pos |-> PosOf(p.currentToken)])

parseContinueStatement(p) ==
    R(p, [kind |-> "ContinueStatement", Pos |-> PosOf(p.currentToken)])

parseReturnStatement(p) ==
    Bind(nextToken(p), LAMBDA p1 :
    Bind(IF p1.currentToken.Type \notin {"SEMICOLON", "NL"}
              THEN parseExpression(p1, PREC_LOWEST)
              ELSE R(p1, Nil), LAMBDA r :
    R(r.p, [kind |-> "ReturnStatement", Pos |-> PosOf(p.currentToken),
                Value |-> r.v])))

parseExpressionStatement(p) ==
    Bind(parseExpression(p, PREC_LOWEST), LAMBDA r :
    R(IF r.p.peekToken.Type = "SEMICOLON" THEN nextToken(r.p) ELSE r.p,
          [kind |-> "ExpressionStatement", Pos |-> PosOf(p.currentToken),
           Expression |-> r.v]))

\* the tail of parseVarStatement from "// Check for assignment"
varAssignment(p, stmt) ==
    IF p.currentToken.Type = "ASSIGN"
    THEN Bind(parseExpression(nextToken(p), PREC_LOWEST), LAMBDA r :
         R(nextToken(r.p), SetValue(stmt, r.v)))
    ELSE R(p, stmt)

parseVarStatement(p) ==
    Bind(PosOf(p.currentToken), LAMBDA pos :
    Bind(skipNewlines(nextToken(p)), LAMBDA p1 :
    IF p1.currentToken.Type # "IDENT"
        THEN R(recover(addError(p1, p1.currentToken,
                 <<"expected identifier, got", p1.currentToken.Type>>)), Nil)
        ELSE
          Bind(NewVarStatement(pos, p1.currentToken.Literal, FALSE), LAMBDA stmt :
          Bind(nextToken(p1), LAMBDA p2 :
          IF p2.currentToken.Type = "COLON"
              THEN Bind(nextToken(p2), LAMBDA p3 :
                   IF p3.currentToken.Type # "IDENT"
                       THEN R(recover(addError(p3, p3.currentToken,
                                <<"expected type identifier, got",
                                  p3.currentToken.Type>>)), Nil)
                       ELSE varAssignment(nextToken(p3),
                                SetTypeHint(stmt, p3.currentToken.Literal)))
              ELSE IF p2.currentToken.Type = "COLONASSIGN"
              THEN Bind(parseExpression(nextToken(p2), PREC_LOWEST), LAMBDA r :
                   R(r.p, SetValue(SetInferred(stmt), r.v)))
              ELSE varAssignment(p2, stmt)))))

\* the tail of parseConstStatement from "// Constants must have an assignment"
constAssignment(p, stmt) ==
    IF p.currentToken.Type # "ASSIGN"
    THEN R(recover(addError(p, p.currentToken,
             <<"constants must be assigned a value">>)), Nil)
    ELSE Bind(parseExpression(nextToken(p), PREC_LOWEST), LAMBDA r :
         R(nextToken(r.p), SetValue(stmt, r.v)))

parseConstStatement(p) ==
    Bind(PosOf(p.currentToken), LAMBDA pos :
    Bind(skipNewlines(nextToken(p)), LAMBDA p1 :
    IF p1.currentToken.Type # "IDENT"
        THEN R(recover(addError(p1, p1.currentToken,
                 <<"expected identifier, got", p1.currentToken.Type>>)), Nil)
        ELSE
          Bind(SetConst(NewVarStatement(pos, p1.currentToken.Literal, FALSE)), LAMBDA stmt :
          Bind(nextToken(p1), LAMBDA p2 :
          IF p2.currentToken.Type = "COLON"
              THEN Bind(nextToken(p2), LAMBDA p3 :
                   IF p3.currentToken.Type # "IDENT"
                       THEN R(recover(addError(p3, p3.currentToken,
                                <<"expected type identifier, got",
                                  p3.currentToken.Type>>)), Nil)
                       ELSE constAssignment(nextToken(p3),
                                SetTypeHint(stmt, p3.currentToken.Literal)))
              ELSE constAssignment(p2, stmt)))))

parseParameter(p) ==
    IF p.currentToken.Type # "IDENT"
    THEN R(addError(p, p.currentToken,
             <<"expected parameter name, got", p.currentToken.Type>>), Nil)
    ELSE
      Bind([kind |-> "Parameter",
                    Pos |-> PosOf(p.currentToken), Name |-> p.currentToken.Literal,
                    TypeHint |-> <<>>, Default |-> Nil], LAMBDA param :
      Bind(nextToken(p), LAMBDA p1 :
      Bind(p1.currentToken.Type = "COLON", LAMBDA hinted :
      Bind(IF hinted THEN nextToken(p1) ELSE p1, LAMBDA p2 :
      IF hinted /\ p2.currentToken.Type # "IDENT"
          THEN R(addError(p2, p2.currentToken,
                   <<"expected type name after ':', got", p2.currentToken.Type>>), Nil)
          ELSE
            Bind(IF hinted
                          THEN [param EXCEPT !.TypeHint = p2.currentToken.Literal]
                          ELSE param, LAMBDA param1 :
            Bind(IF hinted THEN nextToken(p2) ELSE p2, LAMBDA p3 :
            IF p3.currentToken.Type = "ASSIGN"
                THEN Bind(parseExpression(nextToken(p3), PREC_LOWEST), LAMBDA r :
                     IF r.v = Nil
                         THEN R(addError(r.p, r.p.currentToken,
                                  <<"invalid default value expression">>), Nil)
                         ELSE R(nextToken(r.p), [param1 EXCEPT !.Default = r.v]))
                ELSE R(p3, param1)))))))

\* for p.currentToken.Type == COMMA { ... }; v is [function, done]: done
\* means parseParameterList returned from inside the loop
RECURSIVE parameterLoop(_, _)
parameterLoop(p, function) ==
    IF p.currentToken.Type # "COMMA" THEN R(p, [function |-> function, done |-> FALSE])
    ELSE Bind(nextToken(p), LAMBDA p1 :
         IF p1.currentToken.Type = "RPAREN"
             THEN R(p1, [function |-> function, done |-> FALSE])
             ELSE Bind(parseParameter(p1), LAMBDA r :
                  IF r.v = Nil
                      THEN R(r.p, [function |-> function, done |-> TRUE])
                      ELSE parameterLoop(r.p, AddParameter(function, r.v))))

\* v is the function with the parameters added
parseParameterList(p, function) ==
    Bind(nextToken(p), LAMBDA p1 :
    IF p1.currentToken.Type = "RPAREN" THEN R(nextToken(p1), function)
        ELSE Bind(parseParameter(p1), LAMBDA r :
             IF r.v = Nil THEN R(r.p, function)
                 ELSE Bind(parameterLoop(r.p, AddParameter(function, r.v)), LAMBDA lp :
                      IF lp.v.done THEN R(lp.p, lp.v.function)
                          ELSE IF lp.p.currentToken.Type # "RPAREN"
                          THEN R(addError(lp.p, lp.p.currentToken,
                                   <<"expected ')' at end of parameter list">>),
                                 lp.v.function)
                          ELSE R(nextToken(lp.p), lp.v.function))))

\* for p.peekToken.Type in S { p.nextToken() }
RECURSIVE skipPeek(_, _)
skipPeek(p, S) == IF p.peekToken.Type \in S THEN skipPeek(nextToken(p), S) ELSE p

\* the peek types a function body may begin with when no INDENT is peeked
FunctionBodyStart == {"VAR", "RETURN", "PASS"}

\* the peek types a class body may begin with when no INDENT is peeked
ClassBodyStart == {"VAR", "FUNC", "PASS", "CLASS"}

\* the same for the bodies of if, for and while
BlockBodyStart == {"VAR", "RETURN", "PASS", "IF", "FOR", "WHILE"}

\* the same for the body of else
ElseBodyStart == BlockBodyStart \cup {"IDENT"}

\* what the Go type switch of a statement list sees: a *T, nil or not
IsA(v, type) == v.kind = type \/ (v.kind = "nilptr" /\ v.type = type)

\* the *T inside the interface value
Ptr(v) == IF v.kind = "nilptr" THEN Nil ELSE v

\* history: a statement routine is entered on the current token
enter(p) == [p EXCEPT !.dispatched = Append(@, p.currentToken)]

\* a *T returned through the ast.Statement interface
iface(r, type) == IF r.v = Nil THEN R(r.p, NilPtr(type)) ELSE r

RECURSIVE parseStatement(_)
RECURSIVE parseFunctionDefinition(_)
RECURSIVE functionBody(_, _)
RECURSIVE parseClassDefinition(_)
RECURSIVE classBody(_, _)
RECURSIVE stmtBlock(_, _)
RECURSIVE parseIfStatement(_)
RECURSIVE elifLoop(_, _)
RECURSIVE parseElse(_, _)
RECURSIVE parseForStatement(_)
RECURSIVE parseWhileStatement(_)
RECURSIVE parseMatchStatement(_)
RECURSIVE matchBranches(_, _)
RECURSIVE matchBody(_, _)

\* The statement loop shared by the bodies of if, elif, else, for and while:
\* for cur != DEDENT && cur != EOF { skip NL/INDENT | parseStatement; nextToken }
stmtBlock(p, body) ==
    IF p.currentToken.Type \in {"DEDENT", "EOF"} THEN R(p, body)
    ELSE IF p.currentToken.Type \in {"NL", "INDENT"} THEN stmtBlock(nextToken(p), body)
    ELSE Bind(parseStatement(p), LAMBDA r :
         stmtBlock(nextToken(r.p), IF r.v # Nil THEN Append(body, r.v) ELSE body))

\* "Parse statements until dedent" of parseFunctionDefinition
functionBody(p, function) ==
    IF p.currentToken.Type \in {"DEDENT", "EOF"} THEN R(p, function)
    ELSE IF p.currentToken.Type = "NL" THEN functionBody(nextToken(p), function)
    ELSE Bind(parseStatement(p), LAMBDA r :
         functionBody(nextToken(r.p),
                          IF r.v # Nil THEN AddStatement(function, r.v) ELSE function))

\* parseFunctionDefinition from "// Parse function body"
functionBlock(p, function) ==
    Bind(skipPeek(p, {"NL", "INDENT"}), LAMBDA p1 :
    IF p1.peekToken.Type = "INDENT" THEN functionBody(nextToken(p1), function)
        ELSE IF p1.peekToken.Type \in FunctionBodyStart THEN functionBody(p1, function)
        ELSE IF p1.peekToken.Type = "EOF" THEN R(p1, function)
        ELSE R(addError(p1, p1.peekToken,
                 <<"expected indentation or statement, got", p1.peekToken.Type>>), Nil))

\* parseFunctionDefinition from "// Check for return type"
functionHeaderTail(p, function) ==
    Bind(p.currentToken.Type = "ARROW", LAMBDA arrow :
    Bind(IF arrow THEN nextToken(p) ELSE p, LAMBDA p1 :
    IF arrow /\ p1.currentToken.Type # "IDENT"
        THEN R(recover(addError(p1, p1.currentToken,
                 <<"expected return type, got", p1.currentToken.Type>>)), Nil)
        ELSE
          Bind(IF arrow
                    THEN [function EXCEPT !.ReturnType = p1.currentToken.Literal]
                    ELSE function, LAMBDA f1 :
          Bind(IF arrow THEN nextToken(p1) ELSE p1, LAMBDA p2 :
          IF p2.currentToken.Type # "COLON"
              THEN Bind(expectPeek(p2, "COLON"), LAMBDA e :
                   IF ~e.v THEN R(e.p, Nil) ELSE functionBlock(e.p, f1))
              ELSE functionBlock(p2, f1)))))

parseFunctionDefinition(p) ==
    Bind(PosOf(p.currentToken), LAMBDA startPos :
    Bind(p.currentToken.Type = "STATIC", LAMBDA isStatic :
    Bind(IF isStatic THEN nextToken(p) ELSE p, LAMBDA p0 :
    IF isStatic /\ p0.currentToken.Type # "FUNC"
        THEN R(addError(p0, p0.currentToken,
                 <<"expected 'func' after 'static', got", p0.currentToken.Type>>), Nil)
        ELSE
          Bind(nextToken(p0), LAMBDA p1 :
          IF p1.currentToken.Type # "IDENT"
              THEN R(addError(p1, p1.currentToken,
                       <<"expected function name, got", p1.currentToken.Type>>), Nil)
              ELSE
                Bind([NewFunction(p1.currentToken.Literal, startPos)
                                   EXCEPT !.IsStatic = isStatic], LAMBDA function :
                Bind(nextToken(p1), LAMBDA p2 :
                IF p2.currentToken.Type # "LPAREN"
                    THEN R(addError(p2, p2.currentToken,
                             <<"expected '(' after function name, got",
                               p2.currentToken.Type>>), Nil)
                    ELSE Bind(parseParameterList(p2, function), LAMBDA pl :
                         functionHeaderTail(pl.p, pl.v))))))))

\* "Parse class body statements until dedent" of parseClassDefinition
classBody(p, class) ==
    IF p.currentToken.Type \in {"DEDENT", "EOF"} THEN R(p, class)
    ELSE IF p.currentToken.Type \in {"NL", "INDENT"} THEN classBody(nextToken(p), class)
    ELSE IF p.currentToken.Type = "FUNC"
    THEN Bind(parseFunctionDefinition(enter(p)), LAMBDA r :
         classBody(nextToken(r.p),
                       IF r.v # Nil THEN AddFunction(class, r.v) ELSE class))
    ELSE IF p.currentToken.Type = "CLASS"
    THEN Bind(parseClassDefinition(enter(p)), LAMBDA r :
         classBody(nextToken(r.p),
                       IF r.v # Nil THEN AddSubClass(class, r.v) ELSE class))
    ELSE Bind(parseStatement(p), LAMBDA r :
         classBody(nextToken(r.p),
                       IF r.v # Nil THEN ClassAddStatement(class, r.v) ELSE class))

\* parseClassDefinition from "// Expect colon"
classBlock(p, class) ==
    Bind(IF p.currentToken.Type # "COLON" THEN expectPeek(p, "COLON")
             ELSE R(p, TRUE), LAMBDA e :
    IF ~e.v THEN R(e.p, Nil)
        ELSE
          Bind(skipPeek(e.p, {"NL"}), LAMBDA p1 :
          IF p1.peekToken.Type = "INDENT" THEN classBody(nextToken(p1), class)
              ELSE IF p1.peekToken.Type \in ClassBodyStart THEN classBody(p1, class)
              ELSE R(addError(p1, p1.peekToken,
                       <<"expected indentation or statement, got",
                         p1.peekToken.Type>>), Nil)))

parseClassDefinition(p) ==
    Bind(PosOf(p.currentToken), LAMBDA pos :
    Bind(skipNewlines(nextToken(p)), LAMBDA p1 :
    IF p1.currentToken.Type # "IDENT"
        THEN R(recover(addError(p1, p1.currentToken,
                 <<"expected class name, got", p1.currentToken.Type>>)), Nil)
        ELSE
          Bind(NewClass(p1.currentToken.Literal, pos), LAMBDA class :
          Bind(nextToken(p1), LAMBDA p2 :
          IF p2.currentToken.Type = "EXTENDS"
              THEN Bind(nextToken(p2), LAMBDA p3 :
                   IF p3.currentToken.Type # "IDENT"
                       THEN R(recover(addError(p3, p3.currentToken,
                                <<"expected parent class name, got",
                                  p3.currentToken.Type>>)), Nil)
                       ELSE classBlock(nextToken(p3),
                              [class EXCEPT !.Extends = p3.currentToken.Literal]))
              ELSE classBlock(p2, class)))))

\* "After the if body, advance past DEDENT ..." (also after an elif body)
skipDedent(p) == IF p.currentToken.Type = "DEDENT" THEN nextToken(p) ELSE p

\* the else branch of parseIfStatement
parseElse(p, stmt) ==
    IF p.currentToken.Type # "ELSE" THEN R(p, stmt)
    ELSE
      Bind(nextToken(p), LAMBDA p1 :
      Bind(IF p1.currentToken.Type = "COLON" THEN R(p1, TRUE)
                ELSE IF p1.peekToken.Type = "COLON" THEN expectPeek(p1, "COLON")
                ELSE R(addError(p1, p1.currentToken,
                         <<"expected ':' after 'else', got", p1.currentToken.Type>>),
                       FALSE), LAMBDA e :
      IF ~e.v THEN R(e.p, Nil)
          ELSE
            Bind(skipPeek(e.p, {"NL"}), LAMBDA p2 :
            IF p2.peekToken.Type = "INDENT" \/ p2.peekToken.Type \in ElseBodyStart
                THEN Bind(stmtBlock(IF p2.peekToken.Type = "INDENT"
                                        THEN nextToken(p2) ELSE p2, <<>>), LAMBDA b :
                     R(b.p, [stmt EXCEPT !.Alternative = b.v]))
                ELSE R(addError(p2, p2.peekToken,
                         <<"expected indentation or statement after else, got",
                           p2.peekToken.Type>>), Nil))))

\* for p.currentToken.Type == ELIF { ... }, then the else branch
elifLoop(p, stmt) ==
    IF p.currentToken.Type # "ELIF" THEN parseElse(p, stmt)
    ELSE
      Bind(parseExpression(nextToken(p), PREC_LOWEST), LAMBDA c :
      IF c.v = Nil
          THEN R(recover(addError(c.p, c.p.currentToken,
                   <<"expected condition expression after 'elif'">>)), Nil)
          ELSE
            Bind(expectPeek(c.p, "COLON"), LAMBDA e :
            IF ~e.v THEN R(e.p, Nil)
                ELSE
                  Bind(skipPeek(e.p, {"NL"}), LAMBDA p1 :
                  Bind(IF p1.peekToken.Type = "INDENT" THEN nextToken(p1) ELSE p1, LAMBDA p2 :
                  Bind(stmtBlock(p2, <<>>), LAMBDA b :
                  elifLoop(skipDedent(b.p), AddElseIfBranch(stmt, c.v, b.v)))))))

parseIfStatement(p) ==
    Bind(PosOf(p.currentToken), LAMBDA pos :
    Bind(parseExpression(nextToken(p), PREC_LOWEST), LAMBDA c :
    IF c.v = Nil
        THEN R(recover(addError(c.p, c.p.currentToken,
                 <<"expected condition expression after 'if'">>)), Nil)
        ELSE
          Bind(expectPeek(c.p, "COLON"), LAMBDA e :
          IF ~e.v THEN R(e.p, Nil)
              ELSE
                Bind(skipPeek(e.p, {"NL"}), LAMBDA p1 :
                IF p1.peekToken.Type = "INDENT"
                       \/ p1.peekToken.Type \in BlockBodyStart
                    THEN Bind(stmtBlock(IF p1.peekToken.Type = "INDENT"
                                            THEN nextToken(p1) ELSE p1, <<>>), LAMBDA b :
                         elifLoop(skipDedent(b.p),
                                      [NewIfStatement(pos, c.v)
                                         EXCEPT !.Consequence = b.v]))
                    ELSE R(addError(p1, p1.peekToken,
                             <<"expected indentation or statement, got",
                               p1.peekToken.Type>>), Nil)))))

\* the body of parseForStatement / parseWhileStatement from "// Expect colon";
\* v is stmt with its body statements, Nil when the routine returns nil
loopBlock(p, stmt) ==
    Bind(expectPeek(p, "COLON"), LAMBDA e :
    IF ~e.v THEN R(e.p, Nil)
        ELSE
          Bind(skipPeek(e.p, {"NL"}), LAMBDA p1 :
          IF p1.peekToken.Type = "INDENT" \/ p1.peekToken.Type \in BlockBodyStart
              THEN Bind(stmtBlock(IF p1.peekToken.Type = "INDENT"
                                      THEN nextToken(p1) ELSE p1, <<>>), LAMBDA b :
                   R(b.p, [stmt EXCEPT !.Body = b.v]))
              ELSE R(addError(p1, p1.peekToken,
                       <<"expected indentation or statement, got",
                         p1.peekToken.Type>>), Nil)))

\* parseForStatement from "// Expect 'in' keyword"
forTail(p, pos, iteratorTok, isTyped, typeHint) ==
    IF p.currentToken.Type # "IN"
    THEN R(recover(addError(p, p.currentToken,
             <<"expected 'in' keyword, got", p.currentToken.Type>>)), Nil)
    ELSE
      Bind(parseExpression(nextToken(p), PREC_LOWEST), LAMBDA c :
      IF c.v = Nil
          THEN R(recover(addError(c.p, c.p.currentToken,
                   <<"expected collection expression after 'in'">>)), Nil)
          ELSE
            Bind(NewForStatement(pos, iteratorTok.Literal,
                                         PosOf(iteratorTok), c.v, isTyped), LAMBDA stmt0 :
            Bind(IF isTyped
                         THEN [stmt0 EXCEPT !.TypeHint = typeHint,
                                            !.IsTyped = TRUE,
                                            !.Kind = "for_stmt_typed"]
                         ELSE stmt0, LAMBDA stmt :
            loopBlock(c.p, stmt))))

parseForStatement(p) ==
    Bind(PosOf(p.currentToken), LAMBDA pos :
    Bind(nextToken(p), LAMBDA p1 :
    IF p1.currentToken.Type # "IDENT"
        THEN R(recover(addError(p1, p1.currentToken,
                 <<"expected iterator variable name, got",
                   p1.currentToken.Type>>)), Nil)
        ELSE
          Bind(nextToken(p1), LAMBDA p2 :
          IF p2.currentToken.Type = "COLON"
              THEN Bind(nextToken(p2), LAMBDA p3 :
                   IF p3.currentToken.Type # "IDENT"
                       THEN R(recover(addError(p3, p3.currentToken,
                                <<"expected type identifier, got",
                                  p3.currentToken.Type>>)), Nil)
                       ELSE forTail(nextToken(p3), pos, p1.currentToken, TRUE,
                                    p3.currentToken.Literal))
              ELSE forTail(p2, pos, p1.currentToken, FALSE, <<>>))))

parseWhileStatement(p) ==
    Bind(PosOf(p.currentToken), LAMBDA pos :
    Bind(parseExpression(nextToken(p), PREC_LOWEST), LAMBDA c :
    IF c.v = Nil
        THEN R(recover(addError(c.p, c.p.currentToken,
                 <<"expected condition expression after 'while'">>)), Nil)
        ELSE loopBlock(c.p, NewWhileStatement(pos, c.v))))

\* the multi-line branch body: for cur != DEDENT && cur != EOF { ... }
matchBody(p, branch) ==
    IF p.currentToken.Type \in {"DEDENT", "EOF"} THEN R(p, branch)
    ELSE Bind(parseStatement(p), LAMBDA r :
         matchBody(nextToken(r.p),
                       IF r.v # Nil THEN [branch EXCEPT !.Body = Append(@, r.v)]
                       ELSE branch))

\* "Skip to next line" of the single-line branch body
RECURSIVE skipToNextLine(_)
skipToNextLine(p) ==
    IF p.currentToken.Type \notin {"NL", "EOF"} THEN skipToNextLine(nextToken(p))
    ELSE IF p.currentToken.Type = "NL" THEN nextToken(p)
    ELSE p

\* one branch from "// Expect colon"; v is the branch, Nil on `break`
matchBranchBody(p, branch) ==
    Bind(expectPeek(p, "COLON"), LAMBDA e :
    IF ~e.v THEN R(e.p, Nil)
        ELSE IF e.p.peekToken.Type = "NL"
        THEN Bind(expectPeek(nextToken(e.p), "INDENT"), LAMBDA e2 :
             IF ~e2.v THEN R(e2.p, Nil) ELSE matchBody(e2.p, branch))
        ELSE Bind(parseStatement(nextToken(e.p)), LAMBDA r :
             R(skipToNextLine(r.p),
                   IF r.v # Nil THEN [branch EXCEPT !.Body = Append(@, r.v)]
                   ELSE branch)))

\* "Parse match branches": for cur != DEDENT && cur != EOF { ... }
matchBranches(p, stmt) ==
    IF p.currentToken.Type \in {"DEDENT", "EOF"} THEN R(p, stmt)
    ELSE
      Bind(parseExpression(p, PREC_LOWEST), LAMBDA pat :
      IF pat.v = Nil
          THEN R(recover(addError(pat.p, pat.p.currentToken,
                   <<"expected pattern expression in match branch">>)), stmt)
          ELSE
            Bind(NewMatchBranch(PosOf(pat.p.currentToken), pat.v), LAMBDA branch :
            Bind(pat.p.peekToken.Type = "WHEN", LAMBDA guarded :
            Bind(IF guarded
                     THEN parseExpression(nextToken(nextToken(pat.p)), PREC_LOWEST)
                     ELSE R(pat.p, Nil), LAMBDA g :
            IF guarded /\ g.v = Nil
                THEN R(recover(addError(g.p, g.p.currentToken,
                         <<"expected guard expression after 'when'">>)), stmt)
                ELSE
                  Bind(matchBranchBody(g.p,
                             IF guarded
                             THEN [branch EXCEPT !.Guard = g.v, !.IsGuarded = TRUE]
                             ELSE branch), LAMBDA b :
                  IF b.v = Nil THEN R(b.p, stmt)
                      ELSE matchBranches(b.p,
                             [stmt EXCEPT !.Branches = Append(@, b.v)]))))))

parseMatchStatement(p) ==
    Bind(PosOf(p.currentToken), LAMBDA pos :
    Bind(parseExpression(nextToken(p), PREC_LOWEST), LAMBDA v :
    IF v.v = Nil
        THEN R(recover(addError(v.p, v.p.currentToken,
                 <<"expected expression after 'match'">>)), Nil)
        ELSE
          Bind(expectPeek(v.p, "COLON"), LAMBDA e :
          IF ~e.v THEN R(e.p, Nil)
              \* both arms of "if peek == INDENT" advance one token
              ELSE matchBranches(nextToken(skipPeek(e.p, {"NL"})),
                                 NewMatchStatement(pos, v.v)))))

\* the token types parseStatement sends to parseExpressionStatement
ExpressionStart == {"IDENT", "INT", "FLOAT", "STRING", "RSTRING", "TRUE",
                    "FALSE", "NULL", "SELF", "LPAREN"}

parseStatement(p) ==
    Bind(p.currentToken.Type, LAMBDA t :
    Bind(enter(p), LAMBDA q :
    CASE t = "PASS" -> parsePassStatement(q)
          [] t = "RETURN" -> parseReturnStatement(q)
          [] t = "VAR" -> iface(parseVarStatement(q), "VarStatement")
          [] t = "CONST" -> iface(parseConstStatement(q), "VarStatement")
          [] t = "FUNC" -> iface(parseFunctionDefinition(q), "Function")
          [] t = "CLASS" -> iface(parseClassDefinition(q), "Class")
          [] t = "IF" -> iface(parseIfStatement(q), "IfStatement")
          [] t = "WHILE" -> iface(parseWhileStatement(q), "WhileStatement")
          [] t = "FOR" -> iface(parseForStatement(q), "ForStatement")
          [] t = "MATCH" -> iface(parseMatchStatement(q), "MatchStatement")
          [] t = "BREAK" -> parseBreakStatement(q)
          [] t = "CONTINUE" -> parseContinueStatement(q)
          [] t \in ExpressionStart -> parseExpressionStatement(q)
          [] OTHER -> R(p, Nil)))

\* "Parse statements until EOF" of parseGlobalScope
RECURSIVE globalLoop(_, _)
globalLoop(p, class) ==
    IF p.currentToken.Type = "EOF" THEN R(p, class)
    ELSE Bind(parseStatement(p), LAMBDA r :
         Bind(IF r.v = Nil THEN class
                  ELSE IF IsA(r.v, "Function") THEN AddFunction(class, Ptr(r.v))
                  ELSE IF IsA(r.v, "Class") THEN AddSubClass(class, Ptr(r.v))
                  ELSE ClassAddStatement(class, r.v), LAMBDA c :
         globalLoop(nextToken(r.p), c)))

GlobalScopeName == <<"global scope">>

parseGlobalScope(p) ==
    globalLoop(p, NewClass(GlobalScopeName, [Line |-> 1, Column |-> 1, Offset |-> 0]))

\* v is the *ast.AbstractSyntaxTree returned
Parse(p) ==
    Bind(parseGlobalScope(p), LAMBDA g :
    Bind([kind |-> "AbstractSyntaxTree",
               Pos |-> [Line |-> 1, Column |-> 1, Offset |-> 0], RootClass |-> Nil,
               Classes |-> <<>>, Functions |-> <<>>], LAMBDA t0 :
    R(g.p, IF g.v # Nil
               THEN [t0 EXCEPT !.RootClass = g.v,
                               !.Classes = <<g.v>> \o g.v.SubClasses]
               ELSE t0)))

(***************************************************************************)
(* ast.Walk (visitor.go).  The parser attaches no annotation, so the       *)
(* Annotations of classes and functions are empty.                         *)
(***************************************************************************)
\* s1 \o s2 \o ... of a sequence of sequences
RECURSIVE Flatten(_)
Flatten(ss) == IF ss = <<>> THEN <<>> ELSE Head(ss) \o Flatten(Tail(ss))

\* if x != nil { Walk(v, x) }
Opt(x) == IF x = Nil THEN <<>> ELSE <<x>>

\* case *IfStatement, alternative walked before the elif branches
IfChildrenElseFirst(n) ==
    <<n.Condition>> \o n.Consequence \o n.Alternative
        \o Flatten([i \in DOMAIN n.ElseCondition |->
                       <<n.ElseCondition[i]>> \o n.ElseBranches[i]])

\* case *IfStatement
IfChildren(n) ==
    <<n.Condition>> \o n.Consequence
        \o Flatten([i \in DOMAIN n.ElseCondition |->
                       <<n.ElseCondition[i]>> \o n.ElseBranches[i]])
        \o n.Alternative

\* for _, branch := range n.Branches { Pattern; Guard; Body }
MatchBranchChildren(branch) ==
    <<branch.Pattern>> \o Opt(branch.Guard) \o branch.Body

\* the nodes Walk calls itself on for node n, in order (the type switch)
Children(n) ==
    CASE n.kind = "AbstractSyntaxTree" ->
            Opt(n.RootClass) \o SelectSeq(n.Classes, LAMBDA c : c # n.RootClass)
                \o n.Functions
      [] n.kind = "Class" -> n.Statements \o n.Functions \o n.SubClasses
      [] n.kind = "Function" -> n.Parameters \o n.Statements
      [] n.kind = "Parameter" -> Opt(n.Default)
      [] n.kind = "ReturnStatement" -> Opt(n.Value)
      [] n.kind = "ExpressionStatement" -> <<n.Expression>>
      [] n.kind = "VarStatement" -> Opt(n.Value)
      [] n.kind = "IfStatement" -> IfChildren(n)
      [] n.kind = "ForStatement" -> <<n.Collection>> \o n.Body
      [] n.kind = "WhileStatement" -> <<n.Condition>> \o n.Body
      [] n.kind = "MatchStatement" ->
            <<n.Value>> \o Flatten([i \in DOMAIN n.Branches |->
                                      MatchBranchChildren(n.Branches[i])])
      [] n.kind = "PrefixExpression" -> <<n.Right>>
      [] n.kind = "InfixExpression" -> <<n.Left, n.Right>>
      [] n.kind = "CallExpression" -> <<n.Function>> \o n.Arguments
      [] OTHER -> <<>>

\* the pending calls Walk(v, child) of a node at path, each with the path of
\* the child (its index among the children, appended)
Calls(n, path) ==
    [i \in DOMAIN Children(n) |-> [node |-> Children(n)[i], path |-> Append(path, i)]]

(***************************************************************************)
(* Linter directives (package linter: directives.go, linter.go).  A        *)
(* problem is [RuleName, Line]: the rule it names and Position.Line.       *)
(***************************************************************************)
DirectiveIgnore == "ignore"

DirectiveDisable == "disable"

DirectiveEnable == "enable"

NewRuleContext == [globallyDisabled |-> {}, ignoredAtLine |-> <<>>]

\* the same line as the directive
sameLine(directive) == directive.Line

\* nextLine := directive.Line + 1
nextLine(directive) == directive.Line + 1

\* rc.ignoredAtLine[line], created empty when absent, with rules added
ignoreAt(rc, line, rules) ==
    [rc EXCEPT !.ignoredAtLine =
        [l \in DOMAIN rc.ignoredAtLine \cup {line} |->
            IF l = line
            THEN (IF l \in DOMAIN rc.ignoredAtLine THEN rc.ignoredAtLine[l] ELSE {})
                     \cup Range(rules)
            ELSE rc.ignoredAtLine[l]]]

\* one turn of the loop of ProcessDirectives
processDirective(rc, directive) ==
    CASE directive.Type = DirectiveIgnore ->
            ignoreAt(rc, nextLine(directive), directive.Rules)
      [] directive.Type = DirectiveDisable ->
            [rc EXCEPT !.globallyDisabled = @ \cup Range(directive.Rules)]
      [] directive.Type = DirectiveEnable ->
            [rc EXCEPT !.globallyDisabled = @ \ Range(directive.Rules)]

RECURSIVE ProcessDirectives(_, _)
ProcessDirectives(rc, directives) ==
    IF directives = <<>> THEN rc
    ELSE ProcessDirectives(processDirective(rc, Head(directives)), Tail(directives))

\* (rc *RuleContext) IsRuleEnabled(ruleName, pos)
IsRuleEnabled(rc, ruleName, line) ==
    IF ruleName \in rc.globallyDisabled THEN FALSE
    ELSE IF line \in DOMAIN rc.ignoredAtLine /\ ruleName \in rc.ignoredAtLine[line]
    THEN FALSE
    ELSE TRUE

\* (c Config) IsRuleEnabled(ruleName)
ConfigIsRuleEnabled(config, ruleName) == ruleName \notin Range(config.DisabledRules)

\* "Filter problems based on directives"
filteredProblems(rc, ruleProblems) ==
    SelectSeq(ruleProblems, LAMBDA prob : IsRuleEnabled(rc, prob.RuleName, prob.Line))

\* "Apply each enabled rule": rules are the names of l.rules in order and
\* checks[name] is what rule.Check returns
RECURSIVE applyRules(_, _, _, _)
applyRules(rules, config, checks, rc) ==
    IF rules = <<>> THEN <<>>
    ELSE (IF ConfigIsRuleEnabled(config, Head(rules))
          THEN filteredProblems(rc, checks[Head(rules)])
          ELSE <<>>) \o applyRules(Tail(rules), config, checks, rc)

\* LintASTWithSource for a non-empty source whose directives are `directives`
LintASTWithSource(rules, config, checks, directives) ==
    applyRules(rules, config, checks, ProcessDirectives(NewRuleContext, directives))

(***************************************************************************)
(* Formatter (package formatter) with the default configuration: tabs for  *)
(* indentation.  Text is a sequence of characters, as for the lexer.       *)
(***************************************************************************)
TAB_INDENT_SIZE == 4

MAX_LINE_LENGTH == 100

\* the string literals of the formatter
TRUE_TEXT == <<"t", "r", "u", "e">>

FALSE_TEXT == <<"f", "a", "l", "s", "e">>

NULL_TEXT == <<"n", "u", "l", "l">>

UNKNOWN_EXPRESSION == <<"#", " ", "U", "n", "k", "n", "o", "w", "n", " ", "e", "x", "p", "r", "e", "s", "s", "i", "o", "n">>

CONST_TEXT == <<"c", "o", "n", "s", "t", " ">>

VAR_TEXT == <<"v", "a", "r", " ">>

RETURN_TEXT == <<"r", "e", "t", "u", "r", "n">>

PASS_TEXT == <<"p", "a", "s", "s">>

BREAK_TEXT == <<"b", "r", "e", "a", "k">>

CONTINUE_TEXT == <<"c", "o", "n", "t", "i", "n", "u", "e">>

IF_TEXT == <<"i", "f", " ">>

ELIF_TEXT == <<"e", "l", "i", "f", " ">>

ELSE_TEXT == <<"e", "l", "s", "e", ":">>

FOR_TEXT == <<"f", "o", "r", " ">>

IN_TEXT == <<" ", "i", "n", " ">>

WHILE_TEXT == <<"w", "h", "i", "l", "e", " ">>

MATCH_TEXT == <<"m", "a", "t", "c", "h", " ">>

WHEN_TEXT == <<" ", "w", "h", "e", "n", " ">>

FUNC_TEXT == <<"f", "u", "n", "c", " ">>

ARROW_TEXT == <<" ", "-", ">", " ">>

CLASS_TEXT == <<"c", "l", "a", "s", "s">>

EXTENDS_TEXT == <<"\t", "e", "x", "t", "e", "n", "d", "s", " ">>

NIL_STATEMENT == <<"#", " ", "N", "i", "l", " ", "s", "t", "a", "t", "e", "m", "e", "n", "t">>

\* filepath.Base for a path without separators
Base(filePath) == IF filePath = <<>> THEN <<".">> ELSE filePath

\* ParseFile(filePath, content): [p, v], the tree in v and Errors() in p.errors.
\* tree.Classes[0] is the same pointer as tree.RootClass, so the class it
\* points to is renamed with it.
ParseFile(filePath, content) ==
    Bind(NewParserWithOptions(content, ErrorModePanic), LAMBDA p :
    Bind(Parse(p), LAMBDA r :
    IF r.p.panicked \/ r.v.RootClass = Nil THEN r
    ELSE R(r.p, [r.v EXCEPT !.RootClass.Name = Base(filePath),
                            !.Classes[1].Name = Base(filePath)])))

\* the Formatter with its Context
\* LintAST: LintASTWithSource for the source "", where no directive is read
\* and nothing is filtered.  checks[name] is what rule.Check returns for the
\* tree.
RECURSIVE LintAST(_, _, _)
LintAST(rules, config, checks) ==
    IF rules = <<>> THEN <<>>
    ELSE (IF ConfigIsRuleEnabled(config, Head(rules)) THEN checks[Head(rules)]
          ELSE <<>>) \o LintAST(Tail(rules), config, checks)

\* LintFile(filePath): [err, problems].  The file is parsed from the content
\* "", and checksOf[name] is what the rules return for the tree whose root
\* class has that name.
LintFile(rules, config, checksOf, filePath) ==
    Bind(ParseFile(filePath, <<>>), LAMBDA r :
    IF r.p.errors # <<>> THEN [err |-> TRUE, problems |-> <<>>]
    ELSE [err |-> FALSE,
          problems |-> LintAST(rules, config, checksOf[r.v.RootClass.Name])])

\* the problem stored for a file that LintFile failed on
InternalError == <<[RuleName |-> "internal", Line |-> 1]>>

\* levels and frames are history: the values IndentLevel took, one per
\* IncreaseIndent / DecreaseIndent call, and for every visit of a class, function, if,
\* for, while or match node that ended, IndentLevel at its entry and its exit
NewFormatter ==
    [lines |-> <<>>, IndentLevel |-> 0, panicked |-> FALSE,
     levels |-> <<>>, frames |-> <<>>]

\* a nil pointer is dereferenced
Crash(f) == [f EXCEPT !.panicked = TRUE]

RECURSIVE Repeat(_, _)
Repeat(s, n) == IF n <= 0 THEN <<>> ELSE s \o Repeat(s, n - 1)

\* strings.Join
RECURSIVE Join(_, _)
Join(parts, sep) ==
    IF parts = <<>> THEN <<>>
    ELSE IF Len(parts) = 1 THEN parts[1]
    ELSE parts[1] \o sep \o Join(Tail(parts), sep)

GetIndent(f) == Repeat(<<"\t">>, f.IndentLevel)

IncreaseIndent(f) ==
    [f EXCEPT !.IndentLevel = @ + 1, !.levels = Append(@, f.IndentLevel + 1)]

\* DecreaseIndent leaving the level as it is
DecreaseIndentKept(f) ==
    [f EXCEPT !.levels = Append(@, f.IndentLevel)]

DecreaseIndent(f) ==
    [f EXCEPT !.IndentLevel = IF @ > 0 THEN @ - 1 ELSE @,
              !.levels = Append(@, IF f.IndentLevel > 0 THEN f.IndentLevel - 1
                                   ELSE f.IndentLevel)]

\* a visit of a node of the given kind: Visit is the body of the routine
framed(f, kind, Visit(_)) ==
    Bind(Visit(f), LAMBDA g :
    [g EXCEPT !.frames = Append(@, [kind |-> kind, entry |-> f.IndentLevel,
                                    exit |-> g.IndentLevel])])

addLine(f, content) == [f EXCEPT !.lines = Append(@, content)]

addEmptyLine(f) == addLine(f, <<>>)

\* f.addLine(f.context.GetIndent() + text)
addIndented(f, text) == addLine(f, GetIndent(f) \o text)

RECURSIVE formatExpression(_)
formatExpression(e) ==
    CASE e.kind \in {"Identifier", "StringLiteral"} -> e.Value
      [] e.kind = "NumberLiteral" -> e.Original
      [] e.kind = "BooleanLiteral" -> IF e.Value THEN TRUE_TEXT ELSE FALSE_TEXT
      [] e.kind = "NullLiteral" -> NULL_TEXT
      [] e.kind = "PrefixExpression" -> e.Operator \o formatExpression(e.Right)
      [] e.kind = "InfixExpression" ->
            formatExpression(e.Left) \o <<" ">> \o e.Operator \o <<" ">>
                \o formatExpression(e.Right)
      [] e.kind = "CallExpression" ->
            formatExpression(e.Function) \o <<"(">>
                \o Join([i \in DOMAIN e.Arguments |-> formatExpression(e.Arguments[i])],
                        <<",", " ">>)
                \o <<")">>
      [] OTHER -> UNKNOWN_EXPRESSION

formatParameter(param) ==
    param.Name
        \o (IF param.TypeHint # <<>> THEN <<":", " ">> \o param.TypeHint ELSE <<>>)
        \o (IF param.Default # Nil
            THEN <<" ", "=", " ">> \o formatExpression(param.Default) ELSE <<>>)

formatParameters(params) ==
    Join([i \in DOMAIN params |-> formatParameter(params[i])], <<",", " ">>)

visitVarStatement(f, stmt) ==
    addIndented(f,
        (IF stmt.IsConst THEN CONST_TEXT ELSE VAR_TEXT) \o stmt.Name
            \o (IF stmt.TypeHint # <<>> THEN <<":", " ">> \o stmt.TypeHint ELSE <<>>)
            \o (IF stmt.Value # Nil
                THEN <<" ", "=", " ">> \o formatExpression(stmt.Value) ELSE <<>>))

visitReturnStatement(f, stmt) ==
    addIndented(f,
        RETURN_TEXT \o (IF stmt.Value # Nil
                        THEN <<" ">> \o formatExpression(stmt.Value) ELSE <<>>))

visitExpressionStatement(f, stmt) ==
    addIndented(f, formatExpression(stmt.Expression))

RECURSIVE visitStatement(_, _)
RECURSIVE visitStatements(_, _)
RECURSIVE visitFunction(_, _)
RECURSIVE visitClass(_, _)

\* for _, s := range stmts { f.visitStatement(s) }
visitStatements(f, stmts) ==
    IF stmts = <<>> THEN f
    ELSE visitStatements(visitStatement(f, Head(stmts)), Tail(stmts))

\* an indented body: "pass" when it is empty
body(f, stmts) ==
    DecreaseIndent(IF stmts = <<>>
                   THEN addIndented(IncreaseIndent(f), PASS_TEXT)
                   ELSE visitStatements(IncreaseIndent(f), stmts))

\* "Format elif clauses", from clause i on
RECURSIVE elifClauses(_, _, _)
elifClauses(f, stmt, i) ==
    IF i > Len(stmt.ElseCondition) THEN f
    ELSE elifClauses(
             body(addIndented(f, ELIF_TEXT \o formatExpression(stmt.ElseCondition[i])
                                     \o <<":">>),
                  stmt.ElseBranches[i]),
             stmt, i + 1)

\* "Format else clause"
elseClause(f, stmt) ==
    IF stmt.Alternative = <<>> THEN f
    ELSE body(addIndented(f, ELSE_TEXT), stmt.Alternative)

visitIfStatement(f, stmt) ==
    framed(f, "IfStatement", LAMBDA g :
    elseClause(
        elifClauses(
            body(addIndented(g, IF_TEXT \o formatExpression(stmt.Condition) \o <<":">>),
                 stmt.Consequence),
            stmt, 1),
        stmt))

visitForStatement(f, stmt) ==
    framed(f, "ForStatement", LAMBDA g :
    body(addIndented(g, FOR_TEXT \o stmt.Iterator
                          \o (IF stmt.TypeHint # <<>>
                              THEN <<":", " ">> \o stmt.TypeHint ELSE <<>>)
                          \o IN_TEXT \o formatExpression(stmt.Collection) \o <<":">>),
         stmt.Body))

visitWhileStatement(f, stmt) ==
    framed(f, "WhileStatement", LAMBDA g :
    body(addIndented(g, WHILE_TEXT \o formatExpression(stmt.Condition) \o <<":">>),
         stmt.Body))

\* the branches of a match statement, from branch i on
RECURSIVE matchBranchLines(_, _, _)
matchBranchLines(f, stmt, i) ==
    IF i > Len(stmt.Branches) THEN f
    ELSE matchBranchLines(
             body(addIndented(f, formatExpression(stmt.Branches[i].Pattern)
                                     \o (IF stmt.Branches[i].Guard # Nil
                                         THEN WHEN_TEXT
                                                \o formatExpression(stmt.Branches[i].Guard)
                                         ELSE <<>>)
                                     \o <<":">>),
                  stmt.Branches[i].Body),
             stmt, i + 1)

visitMatchStatement(f, stmt) ==
    framed(f, "MatchStatement", LAMBDA g :
    DecreaseIndent(
        matchBranchLines(
            IncreaseIndent(addIndented(g, MATCH_TEXT \o formatExpression(stmt.Value)
                                              \o <<":">>)),
            stmt, 1)))

\* the type switch of visitStatement; a nil pointer of a type whose routine
\* reads a field panics there
visitStatement(f, stmt) ==
    CASE stmt.kind = "nil" -> addIndented(f, NIL_STATEMENT)
      [] stmt.kind = "nilptr" ->
            IF stmt.type = "PassStatement" THEN addIndented(f, PASS_TEXT)
            ELSE IF stmt.type = "BreakStatement" THEN addIndented(f, BREAK_TEXT)
            ELSE IF stmt.type = "ContinueStatement" THEN addIndented(f, CONTINUE_TEXT)
            ELSE Crash(f)
      [] stmt.kind = "VarStatement" -> visitVarStatement(f, stmt)
      [] stmt.kind = "ReturnStatement" -> visitReturnStatement(f, stmt)
      [] stmt.kind = "ExpressionStatement" -> visitExpressionStatement(f, stmt)
      [] stmt.kind = "PassStatement" -> addIndented(f, PASS_TEXT)
      [] stmt.kind = "BreakStatement" -> addIndented(f, BREAK_TEXT)
      [] stmt.kind = "ContinueStatement" -> addIndented(f, CONTINUE_TEXT)
      [] stmt.kind = "IfStatement" -> visitIfStatement(f, stmt)
      [] stmt.kind = "ForStatement" -> visitForStatement(f, stmt)
      [] stmt.kind = "WhileStatement" -> visitWhileStatement(f, stmt)
      [] stmt.kind = "MatchStatement" -> visitMatchStatement(f, stmt)
      [] stmt.kind = "Function" -> visitFunction(f, stmt)
      [] stmt.kind = "Class" -> visitClass(f, stmt)

\* the length of the signature on one line
totalLength(f, node) ==
    Len(GetIndent(f) \o FUNC_TEXT \o node.Name \o <<"(">>)
        + Len(formatParameters(node.Parameters)) + 1
        + (IF node.ReturnType # <<>> THEN Len(ARROW_TEXT \o node.ReturnType) ELSE 0)

\* "Multi-line parameters": one parameter per line, each followed by a comma
multiLineParameters(f, params) ==
    Join([i \in DOMAIN params |->
             GetIndent(IncreaseIndent(f)) \o formatParameter(params[i])
                 \o <<",", "\n">>], <<>>)

\* funcLine of visitFunction
funcLine(f, node) ==
    GetIndent(f) \o FUNC_TEXT \o node.Name \o <<"(">>
        \o (IF node.Parameters = <<>> THEN <<")">>
            ELSE IF totalLength(f, node) > MAX_LINE_LENGTH
            THEN <<"\n">> \o multiLineParameters(f, node.Parameters)
                     \o GetIndent(f) \o <<")">>
            ELSE formatParameters(node.Parameters) \o <<")">>)
        \o (IF node.ReturnType # <<>> THEN ARROW_TEXT \o node.ReturnType ELSE <<>>)
        \o <<":">>

visitFunction(f, node) ==
    IF node = Nil THEN Crash(f)
    ELSE framed(f, "Function", LAMBDA g :
         body(addLine(g, funcLine(g, node)), node.Statements))

\* for _, function := range functions { if previous { addEmptyLine }; visitFunction }
RECURSIVE spacedFunctions(_, _, _)
spacedFunctions(f, functions, previous) ==
    IF functions = <<>> THEN f
    ELSE spacedFunctions(
             visitFunction(IF previous THEN addEmptyLine(f) ELSE f, Head(functions)),
             Tail(functions), TRUE)

\* for _, subClass := range classes { if previous { gap empty lines }; visitClass }
RECURSIVE spacedClasses(_, _, _, _)
spacedClasses(f, classes, previous, gap) ==
    IF classes = <<>> THEN f
    ELSE spacedClasses(
             visitClass(IF previous THEN Bind(Repeat(<<<<>>>>, gap),
                                         LAMBDA empty : [f EXCEPT !.lines = @ \o empty])
                        ELSE f,
                        Head(classes)),
             Tail(classes), TRUE, gap)

classLine(f, node) ==
    GetIndent(f) \o CLASS_TEXT
        \o (IF node.Name # <<>> THEN <<" ">> \o node.Name ELSE <<>>)
        \o (IF node.Extends # <<>>
            THEN <<":", "\n">> \o GetIndent(f) \o EXTENDS_TEXT \o node.Extends
            ELSE <<>>)
        \o <<":">>

\* the members of a class: statements, functions, sub-classes
classMembers(f, node, gap) ==
    spacedClasses(
        spacedFunctions(visitStatements(f, node.Statements), node.Functions,
                        node.Statements # <<>>),
        node.SubClasses,
        node.Statements # <<>> \/ node.Functions # <<>>, gap)

visitClass(f, node) ==
    IF node = Nil THEN Crash(f)
    ELSE framed(f, "Class", LAMBDA g :
         DecreaseIndent(
             IF node.Statements = <<>> /\ node.Functions = <<>> /\ node.SubClasses = <<>>
             THEN addIndented(IncreaseIndent(addLine(g, classLine(g, node))), PASS_TEXT)
             ELSE classMembers(IncreaseIndent(addLine(g, classLine(g, node))), node, 1)))

\* the name ParseFile gives the root class of the file "test.gd"
TEST_NAME == <<"t", "e", "s", "t", ".", "g", "d">>

visitClassContents(f, node) == classMembers(f, node, 2)

\* "Check if root class is just a wrapper"
hasRealRootClass(node) ==
    node.RootClass # Nil /\ node.RootClass.Name # <<>>
        /\ node.RootClass.Name # TEST_NAME

\* "Format other classes with proper spacing"
otherClasses(node) == SelectSeq(node.Classes, LAMBDA c : c # node.RootClass)

\* "Format top-level functions"
RECURSIVE topFunctions(_, _, _)
topFunctions(f, functions, previousWasClass) ==
    IF functions = <<>> THEN f
    ELSE topFunctions(
             visitFunction(IF previousWasClass THEN addEmptyLine(addEmptyLine(f)) ELSE f,
                           Head(functions)),
             Tail(functions), FALSE)

visitAST(f, node) ==
    topFunctions(
        spacedClasses(
            IF hasRealRootClass(node) THEN visitClass(f, node.RootClass)
            ELSE IF node.RootClass # Nil THEN visitClassContents(f, node.RootClass)
            ELSE f,
            otherClasses(node), hasRealRootClass(node), 2),
        node.Functions,
        hasRealRootClass(node) \/ otherClasses(node) # <<>>)

\* FormatAST(node): the formatter when visitAST has returned
FormatAST(node) == visitAST(NewFormatter, node)

\* FormatCode(ast, config): [panicked, text], with the formatter it ran in ctx
FormatCode(ast) ==
    Bind(FormatAST(ast), LAMBDA f :
    [panicked |-> f.panicked,
     text |-> IF f.panicked THEN <<>> ELSE Join(f.lines, <<"\n">>),
     ctx |-> [made |-> TRUE, IndentLevel |-> f.IndentLevel,
              levels |-> f.levels, frames |-> f.frames]])

(***************************************************************************)
(* Lexer runs: a caller pulling tokens with NextToken                      *)
(***************************************************************************)
MaxLen == 5         \* longest source text of a lexer run

MaxEofCalls == 2    \* NextToken calls answered by EOF before the caller stops

LexAlphabet == {"a", "r", "\"", "\n", " ", "\t"}

LexInputs == UNION {[1..n -> LexAlphabet] : n \in 0..MaxLen}

Count(seq, type) == Cardinality({i \in DOMAIN seq : seq[i].Type = type})

NoParser == [made |-> FALSE]

NoWalk == [stack |-> <<>>, log |-> <<>>]

NoLint == [directives |-> <<>>, checks |-> <<>>, problems |-> <<>>]

NoCtx == [made |-> FALSE]

NoFmt == [path |-> <<>>, texts |-> <<>>, failed |-> "none", ctx |-> NoCtx]

NoTree == [returned |-> FALSE]

NoFn == [made |-> FALSE]

NoJob == [made |-> FALSE]

LexInit ==
    /\ input \in LexInputs
    /\ lx = NewLexer(input)
    /\ out = <<>>
    /\ last = [kind |-> "none"]
    /\ mode = "strict"
    /\ phase = "lex"
    /\ ps = NoParser
    /\ tree = NoTree
    /\ walk = NoWalk
    /\ lint = NoLint
    /\ fmt = NoFmt
    /\ fnode = NoFn
    /\ job = NoJob

\* One call of NextToken by the caller.  `last` records which path the call
\* took; for the newline case, the stack before the call and what it queued.
CallNextToken ==
    /\ phase = "lex"
    /\ ~lx.panicked
    /\ Count(out, "EOF") < MaxEofCalls
    /\ LET r  == NextToken(lx)
           ws == skipWhitespace(lx)
       IN  /\ lx' = r.l
           /\ out' = IF r.l.panicked THEN out ELSE Append(out, r.tok)
           /\ last' = IF r.l.panicked THEN [kind |-> "panic"]
                      ELSE IF Len(lx.tokens) > 0 THEN [kind |-> "queued"]
                      ELSE IF ws.ch = "\n"
                      THEN [kind |-> "newline", pos |-> ws.position,
                            before |-> lx.indentStack]
                      ELSE [kind |-> "scan"]
    /\ UNCHANGED <<input, mode, phase, ps, tree, walk, lint, fmt, fnode, job>>

LexNext == CallNextToken

LexSpec == LexInit /\ [][LexNext]_vars

(***************************************************************************)
(* Parser runs: a caller building a parser over a source text and calling  *)
(* Parse once                                                              *)
(***************************************************************************)
MaxLexemes == 3     \* longest source text of the exhaustive family, in fragments

\* the fragments: var   a  =  1  \n  \t  if   :  (  )  pass  func   r"  class
Lexemes ==
    {<<"v", "a", "r", " ">>,
     <<"a">>,
     <<"=">>,
     <<"1">>,
     <<"\n">>,
     <<"\t">>,
     <<"i", "f", " ">>,
     <<":">>,
     <<"(">>,
     <<")">>,
     <<"p", "a", "s", "s">>,
     <<"f", "u", "n", "c", " ">>,
     <<"r", "\"">>,
     <<"c", "l", "a", "s", "s", " ">>}

\* every concatenation of at most n fragments
RECURSIVE Programs(_)
Programs(n) ==
    IF n = 0 THEN {<<>>}
    ELSE LET s == Programs(n - 1)
         IN  s \cup {p \o x : p \in s, x \in Lexemes}

SmallPrograms == Programs(MaxLexemes)

Sp == <<" ">>

\* a op1 b op2 c, for the binary operators the infix loop accepts
BinOps ==
    {[lit |-> <<"+">>, type |-> "PLUS"],
     [lit |-> <<"-">>, type |-> "MINUS"],
     [lit |-> <<"*">>, type |-> "ASTERISK"],
     [lit |-> <<"/">>, type |-> "SLASH"],
     [lit |-> <<"%">>, type |-> "PERCENT"],
     [lit |-> <<"*", "*">>, type |-> "POWER"],
     [lit |-> <<"=", "=">>, type |-> "EQ"],
     [lit |-> <<"!", "=">>, type |-> "NOT_EQ"],
     [lit |-> <<"<">>, type |-> "LT"],
     [lit |-> <<">">>, type |-> "GT"],
     [lit |-> <<"<", "=">>, type |-> "LTE"],
     [lit |-> <<">", "=">>, type |-> "GTE"],
     [lit |-> <<"a", "n", "d">>, type |-> "AND"],
     [lit |-> <<"o", "r">>, type |-> "OR"],
     [lit |-> <<"=">>, type |-> "ASSIGN"],
     [lit |-> <<"+", "=">>, type |-> "PLUSEQ"],
     [lit |-> <<"-", "=">>, type |-> "MINUSEQ"],
     [lit |-> <<"*", "=">>, type |-> "ASTERISKEQ"],
     [lit |-> <<"/", "=">>, type |-> "SLASHEQ"],
     [lit |-> <<".">>, type |-> "DOT"]}

OperandTriples == {<<<<"a">>, <<"b">>, <<"c">>>>, <<<<"1">>, <<"2">>, <<"3">>>>}

ExprText(x, op1, op2) ==
    x[1] \o Sp \o op1.lit \o Sp \o x[2] \o Sp \o op2.lit \o Sp \o x[3]

ExprPrograms ==
    {[text |-> ExprText(x, op1, op2), x |-> x, op1 |-> op1, op2 |-> op2] :
        x \in OperandTriples, op1 \in BinOps, op2 \in BinOps}

\* X if C else Y; xs is X fully parenthesised
CondParts ==
    [X |-> {[text |-> <<"a">>, xs |-> <<"a">>],
            [text |-> <<"1", " ", "+", " ", "2">>, xs |-> <<"(", "1", " ", "+", " ", "2", ")">>]},
     C |-> {<<"t", "r", "u", "e">>, <<"c">>},
     Y |-> {<<"3">>, <<"b">>}]

CondPrograms ==
    {[text |-> x.text \o <<" ", "i", "f", " ">> \o c \o <<" ", "e", "l", "s", "e", " ">> \o y, xs |-> x.xs, c |-> c, y |-> y] :
        x \in CondParts.X, c \in CondParts.C, y \in CondParts.Y}

\* the lines of a text, each ended by a newline, behind the indentation ind
RECURSIVE Lines(_, _)
Lines(ls, ind) ==
    IF ls = <<>> THEN <<>>
    ELSE ind \o Head(ls) \o <<"\n">> \o Lines(Tail(ls), ind)

\* two consecutive statements S1, S2 in a statement list; `first` is the type
\* of the token the statement starts with
FirstStatements ==
    {[lines |-> <<<<"i", "f", " ", "a", ":">>, <<"\t", "p", "a", "s", "s">>>>, first |-> "IF"],
     [lines |-> <<<<"v", "a", "r", " ", "a", " ", "=", " ", "1">>>>, first |-> "VAR"],
     [lines |-> <<<<"c", "o", "n", "s", "t", " ", "A", " ", "=", " ", "1">>>>, first |-> "CONST"],
     [lines |-> <<<<"w", "h", "i", "l", "e", " ", "a", ":">>, <<"\t", "p", "a", "s", "s">>>>, first |-> "WHILE"],
     [lines |-> <<<<"a", " ", "=", " ", "1">>>>, first |-> "IDENT"]}

SecondStatements ==
    {[lines |-> <<<<"v", "a", "r", " ", "b", " ", "=", " ", "2">>>>, first |-> "VAR"],
     [lines |-> <<<<"p", "a", "s", "s">>>>, first |-> "PASS"],
     [lines |-> <<<<"b", " ", "=", " ", "2">>>>, first |-> "IDENT"],
     [lines |-> <<<<"r", "e", "t", "u", "r", "n", " ", "b">>>>, first |-> "RETURN"]}

\* the statement lists: global scope, a function body, an if body
ListContexts ==
    {[head |-> <<>>, ind |-> <<>>],
     [head |-> <<<<"f", "u", "n", "c", " ", "f", "(", ")", ":">>, <<"\t", "p", "a", "s", "s">>>>, ind |-> <<"\t">>],
     [head |-> <<<<"i", "f", " ", "c", ":">>, <<"\t", "p", "a", "s", "s">>>>, ind |-> <<"\t">>]}

PairProgram(cx, s1, s2) ==
    LET before1 == Lines(cx.head, <<>>)
        before2 == before1 \o Lines(s1.lines, cx.ind)
    IN  [text |-> before2 \o Lines(s2.lines, cx.ind),
         s1at |-> Len(before1) + Len(cx.ind), s1first |-> s1.first,
         s2at |-> Len(before2) + Len(cx.ind), s2first |-> s2.first]

PairPrograms ==
    {PairProgram(cx, s1, s2) :
        cx \in ListContexts, s1 \in FirstStatements, s2 \in SecondStatements}

\* a function of three statements, and the same with one statement replaced
\* by a text of the same length that has a syntax error, so that the other
\* statements keep their positions
FunctionHead == <<<<"f", "u", "n", "c", " ", "f", "(", ")", ":">>>>

\* var a = 1 / var b = 2 / return a
FunctionLines ==
    <<<<"v", "a", "r", " ", "a", " ", "=", " ", "1">>,
      <<"v", "a", "r", " ", "b", " ", "=", " ", "2">>,
      <<"r", "e", "t", "u", "r", "n", " ", "a">>>>

FunctionText(ls) == Lines(FunctionHead, <<>>) \o Lines(ls, <<"\t">>)

\* statement stmt replaced by line
ErrorEdits ==
    {[stmt |-> 1, line |-> <<"v", "a", "r", " ", "1", " ", "=", " ", "1">>],
     [stmt |-> 1, line |-> <<"v", "a", "r", " ", "a", " ", "=", " ", ")">>],
     [stmt |-> 1, line |-> <<"v", "a", "r", " ", " ", " ", " ", " ", " ">>],
     [stmt |-> 2, line |-> <<"v", "a", "r", " ", "2", " ", "=", " ", "2">>],
     [stmt |-> 2, line |-> <<"v", "a", "r", " ", "b", " ", "=", " ", ")">>],
     [stmt |-> 2, line |-> <<"v", "a", "r", " ", " ", " ", " ", " ", " ">>],
     [stmt |-> 3, line |-> <<"r", "e", "t", "u", "r", "n", " ", ")">>]}

ErrorProgram(e) ==
    [text |-> FunctionText([FunctionLines EXCEPT ![e.stmt] = e.line]),
     stmt |-> e.stmt]

ErrorPrograms == {ErrorProgram(e) : e \in ErrorEdits}

\* a function whose body begins with each kind of statement:
\* a(1) / if / for / while / match / break / continue / const / var / return / pass
BodyStarts ==
    {[lines |-> <<<<"a", "(", "1", ")">>>>, kind |-> "ExpressionStatement"],
     [lines |-> <<<<"i", "f", " ", "a", ":">>, <<"\t", "p", "a", "s", "s">>>>, kind |-> "IfStatement"],
     [lines |-> <<<<"f", "o", "r", " ", "i", " ", "i", "n", " ", "a", ":">>, <<"\t", "p", "a", "s", "s">>>>, kind |-> "ForStatement"],
     [lines |-> <<<<"w", "h", "i", "l", "e", " ", "a", ":">>, <<"\t", "p", "a", "s", "s">>>>, kind |-> "WhileStatement"],
     [lines |-> <<<<"m", "a", "t", "c", "h", " ", "a", ":">>, <<"\t", "1", ":">>, <<"\t", "\t", "p", "a", "s", "s">>>>, kind |-> "MatchStatement"],
     [lines |-> <<<<"b", "r", "e", "a", "k">>>>, kind |-> "BreakStatement"],
     [lines |-> <<<<"c", "o", "n", "t", "i", "n", "u", "e">>>>, kind |-> "ContinueStatement"],
     [lines |-> <<<<"c", "o", "n", "s", "t", " ", "A", " ", "=", " ", "1">>>>, kind |-> "VarStatement"],
     [lines |-> <<<<"v", "a", "r", " ", "a", " ", "=", " ", "1">>>>, kind |-> "VarStatement"],
     [lines |-> <<<<"r", "e", "t", "u", "r", "n", " ", "a">>>>, kind |-> "ReturnStatement"],
     [lines |-> <<<<"p", "a", "s", "s">>>>, kind |-> "PassStatement"]}

BodyProgram(b) == [text |-> FunctionText(b.lines), kind |-> b.kind]

BodyPrograms == {BodyProgram(b) : b \in BodyStarts}

\* sources that define classes, with the names of the classes they define:
\* one class; two classes side by side; a class Inner inside a class Outer
ClassPrograms ==
    {[text |-> Lines(<<<<"c", "l", "a", "s", "s", " ", "A", ":">>, <<"\t", "v", "a", "r", " ", "a", " ", "=", " ", "1">>>>, <<>>),
      names |-> {<<"A">>}],
     [text |-> Lines(<<<<"c", "l", "a", "s", "s", " ", "A", ":">>, <<"\t", "p", "a", "s", "s">>, <<"c", "l", "a", "s", "s", " ", "B", ":">>, <<"\t", "p", "a", "s", "s">>>>, <<>>),
      names |-> {<<"A">>, <<"B">>}],
     [text |-> Lines(<<<<"c", "l", "a", "s", "s", " ", "O", "u", "t", "e", "r", ":">>, <<"\t", "c", "l", "a", "s", "s", " ", "I", "n", "n", "e", "r", ":">>, <<"\t", "\t", "v", "a", "r", " ", "a", " ", "=", " ", "1">>>>, <<>>),
      names |-> {<<"O", "u", "t", "e", "r">>, <<"I", "n", "n", "e", "r">>}],
     [text |-> Lines(<<<<"c", "l", "a", "s", "s", " ", "O", "u", "t", "e", "r", ":">>, <<"\t", "v", "a", "r", " ", "b", " ", "=", " ", "1">>, <<"\t", "c", "l", "a", "s", "s", " ", "I", "n", "n", "e", "r", ":">>, <<"\t", "\t", "p", "a", "s", "s">>>>, <<>>),
      names |-> {<<"O", "u", "t", "e", "r">>, <<"I", "n", "n", "e", "r">>}]}

\* sources the lexer answers with an ILLEGAL token: a character that starts
\* no token, alone, on a line of its own and as an operand; a dedent to a
\* width that was never pushed; and such a character where a name must stand
IllegalPrograms ==
    {<<"?">>,
     <<"v", "a", "r", " ", "a", " ", "=", " ", "1", "\n", "?", "\n">>,
     <<"a", " ", "=", " ", "?", "\n">>,
     <<"i", "f", " ", "a", ":", "\n", "\t", "\t", "p", "a", "s", "s", "\n", "\t", "b", "\n">>,
     <<"v", "a", "r", " ", "?", "\n">>}

\* the postfix chain of TestExpressionParsing's attribute, subscript and call
\* cases, and its parts
ChainText == <<"a", ".", "b", "[", "0", "]", "(", "x", ")", "\n">>

ChainPrograms ==
    {ChainText,
     <<"a", ".", "b", "\n">>,
     <<"a", "[", "0", "]", "\n">>,
     <<"a", "(", "x", ")", "\n">>}

ParseInputs ==
    SmallPrograms \cup {FunctionText(FunctionLines)}
        \cup {e.text : e \in ExprPrograms} \cup {e.text : e \in CondPrograms}
        \cup {e.text : e \in PairPrograms} \cup {e.text : e \in ErrorPrograms}
        \cup {e.text : e \in BodyPrograms}
        \cup {e.text : e \in ClassPrograms}
        \cup IllegalPrograms \cup ChainPrograms

ParseInit ==
    /\ input \in ParseInputs
    /\ mode \in {ErrorModeStrict, ErrorModePanic}
    /\ lx = Replay(NewLexer(input))
    /\ out = <<>>
    /\ last = [kind |-> "none"]
    /\ phase = "new"
    /\ ps = NoParser
    /\ tree = NoTree
    /\ walk = NoWalk
    /\ lint = NoLint
    /\ fmt = NoFmt
    /\ fnode = NoFn
    /\ job = NoJob

\* the caller builds the parser; its constructor pulls the first two tokens
CallNewParser ==
    /\ phase = "new"
    /\ \E p \in {NewParserWithOptions(input, mode)} :
           /\ ps' = p
           /\ lx' = p.lexer
           /\ phase' = IF p.panicked THEN "unbuilt" ELSE "ready"
    /\ UNCHANGED <<input, out, last, mode, tree, walk, lint, fmt, fnode, job>>

\* the caller calls Parse; a runtime panic leaves it without a tree
CallParse ==
    /\ phase = "ready"
    /\ \E r \in {Parse(ps)} :
           /\ ps' = r.p
           /\ lx' = r.p.lexer
           /\ phase' = IF r.p.panicked THEN "crashed" ELSE "done"
           /\ tree' = IF r.p.panicked THEN NoTree
                      ELSE [returned |-> TRUE, ast |-> r.v]
    /\ UNCHANGED <<input, out, last, mode, walk, lint, fmt, fnode, job>>

ParseNext == CallNewParser \/ CallParse

ParseSpec == ParseInit /\ [][ParseNext]_vars

(***************************************************************************)
(* Walk runs: a caller parsing a source text and walking the tree with an  *)
(* arbitrary visitor                                                       *)
(***************************************************************************)
\* an if / elif / elif / else chain; a bare if; a function with a defaulted
\* parameter; an if / else inside a while; a call; a declaration with a
\* syntax error; a class with one statement
WalkInputs ==
    {<<"i", "f", " ", "a", ":", "\n", "\t", "b", "\n", "e", "l", "i", "f", " ", "c", ":", "\n", "\t", "d", "\n", "e", "l", "i", "f", " ", "e", ":", "\n", "\t", "f", "\n", "e", "l", "s", "e", ":", "\n", "\t", "g", "\n">>,
     <<"i", "f", " ", "a", ":", "\n", "\t", "p", "a", "s", "s", "\n">>,
     <<"f", "u", "n", "c", " ", "f", "(", "x", " ", "=", " ", "1", ")", ":", "\n", "\t", "r", "e", "t", "u", "r", "n", " ", "x", " ", "+", " ", "1", "\n">>,
     <<"w", "h", "i", "l", "e", " ", "a", ":", "\n", "\t", "i", "f", " ", "b", ":", "\n", "\t", "\t", "p", "a", "s", "s", "\n", "\t", "e", "l", "s", "e", ":", "\n", "\t", "\t", "c", "\n">>,
     <<"c", "(", "1", ")", "\n">>,
     <<"v", "a", "r", " ", "1", "\n">>,
     <<"c", "l", "a", "s", "s", " ", "A", ":", "\n", "\t", "p", "a", "s", "s", "\n">>}

\* the pointer types whose case in the type switch reads no field
NoFieldKinds == {"PassStatement", "BreakStatement", "ContinueStatement"}

WalkInit ==
    /\ input \in WalkInputs
    /\ mode = ErrorModePanic
    /\ \E p \in {NewParserWithOptions(input, mode)} : \E r \in {Parse(p)} :
           /\ ps = r.p
           /\ lx = r.p.lexer
           /\ tree = [returned |-> TRUE, ast |-> r.v]
           /\ walk = [stack |-> <<[node |-> r.v, path |-> <<>>]>>, log |-> <<>>]
    /\ out = <<>>
    /\ last = [kind |-> "none"]
    /\ phase = "walk"
    /\ lint = NoLint
    /\ fmt = NoFmt
    /\ fnode = NoFn
    /\ job = NoJob

\* One call Walk(v, node): v.Visit(node) returns a visitor (keep) or nil; with
\* a visitor the type switch calls Walk on the children in order, before the
\* calls still pending in the callers.  A nil pointer inside the interface
\* makes the switch read a field of nil: a runtime panic.
CallWalk ==
    /\ phase = "walk"
    /\ walk.stack # <<>>
    /\ \E keep \in BOOLEAN :
        \E h \in {Head(walk.stack)} :
           /\ walk' = [stack |-> (IF keep /\ h.node.kind # "nilptr"
                                  THEN Calls(h.node, h.path) ELSE <<>>)
                                     \o Tail(walk.stack),
                       log |-> Append(walk.log,
                                 [node |-> h.node, path |-> h.path, keep |-> keep])]
           /\ phase' = IF keep /\ h.node.kind = "nilptr"
                          /\ h.node.type \notin NoFieldKinds
                       THEN "crashed" ELSE "walk"
    /\ UNCHANGED <<input, lx, out, last, mode, ps, tree, lint, fmt, fnode, job>>

WalkNext == CallWalk

WalkSpec == WalkInit /\ [][WalkNext]_vars

(***************************************************************************)
(* Linter runs: a linter of two rules, r1 and r2, filtering what the rules *)
(* report by the directives of the source                                  *)
(***************************************************************************)
MaxDirectiveLine == 2   \* directives stand on lines 1..MaxDirectiveLine

MaxDirectives == 2      \* directives in the source

MaxFindings == 2        \* problems reported by rule r1

LintRules == <<"r1", "r2">>

DefaultConfig == [DisabledRules |-> <<>>]

\* ParseDirectives reads the lines top down and on each line looks for an
\* ignore, then a disable, then an enable directive
DirectiveTypes == <<DirectiveIgnore, DirectiveDisable, DirectiveEnable>>

DirectiveKeys == (1..MaxDirectiveLine) \X DOMAIN DirectiveTypes

KeyRank(k) == k[1] * Len(DirectiveTypes) + k[2]

RECURSIVE SortedKeys(_)
SortedKeys(S) ==
    IF S = {} THEN <<>>
    ELSE LET m == CHOOSE k \in S : \A j \in S : KeyRank(k) <= KeyRank(j)
         IN  <<m>> \o SortedKeys(S \ {m})

RuleLists == {<<"r1">>, <<"r1", "r2">>}

DirectivesOf(S, rl) ==
    [i \in DOMAIN SortedKeys(S) |->
        [Type |-> DirectiveTypes[SortedKeys(S)[i][2]],
         Rules |-> rl[SortedKeys(S)[i]],
         Line |-> SortedKeys(S)[i][1]]]

DirectiveLists ==
    UNION {{DirectivesOf(S, rl) : rl \in [S -> RuleLists]} :
              S \in {T \in SUBSET DirectiveKeys : Cardinality(T) <= MaxDirectives}}

FindingLines == 1..(MaxDirectiveLine + 1)

FindingsOf(rule, n) == [1..n -> {[RuleName |-> rule, Line |-> l] : l \in FindingLines}]

LintInit ==
    /\ input = <<>>
    /\ lx = NewLexer(input)
    /\ out = <<>>
    /\ last = [kind |-> "none"]
    /\ mode = ErrorModeStrict
    /\ phase = "lint"
    /\ ps = NoParser
    /\ tree = NoTree
    /\ walk = NoWalk
    /\ fmt = NoFmt
    /\ fnode = NoFn
    /\ job = NoJob
    /\ \E ds \in DirectiveLists, n \in 0..MaxFindings :
        \E c1 \in FindingsOf("r1", n), c2 \in FindingsOf("r2", 1) :
            lint = [directives |-> ds, checks |-> [r1 |-> c1, r2 |-> c2],
                    problems |-> <<>>]

\* the caller lints the tree with its source
CallLint ==
    /\ phase = "lint"
    /\ lint' = [lint EXCEPT !.problems =
                   LintASTWithSource(LintRules, DefaultConfig, lint.checks,
                                     lint.directives)]
    /\ phase' = "linted"
    /\ UNCHANGED <<input, lx, out, last, mode, ps, tree, walk, fmt, fnode, job>>

LintNext == CallLint

LintSpec == LintInit /\ [][LintNext]_vars

(***************************************************************************)
(* Formatter runs: a caller that parses a file, formats the tree when the  *)
(* parse reported no error, and does the same again with the text it got   *)
(***************************************************************************)
MaxRounds == 2      \* how many times the text is parsed and formatted

\* "test.gd", the one name visitAST takes for a wrapper, and another name
FilePaths == {TEST_NAME, <<"a", ".", "g", "d">>}

\* sources the formatter is run on: the exhaustive family of short texts, a
\* declaration, a class, a function, an if statement followed by a
\* declaration, an if statement inside a function, a for loop inside a while
\* loop, a function inside a class, and a match statement
FormatPrograms ==
    {<<"v", "a", "r", " ", "a", " ", "=", " ", "1", "\n">>,
     <<"c", "l", "a", "s", "s", " ", "A", ":", "\n", "\t", "p", "a", "s", "s", "\n">>,
     <<"f", "u", "n", "c", " ", "f", "(", ")", ":", "\n", "\t", "p", "a", "s", "s", "\n">>,
     <<"i", "f", " ", "a", ":", "\n", "\t", "p", "a", "s", "s", "\n", "v", "a", "r", " ", "b", " ", "=", " ", "2", "\n">>,
     <<"f", "u", "n", "c", " ", "f", "(", ")", ":", "\n", "\t", "p", "a", "s", "s", "\n", "\t", "i", "f", " ", "a", ":", "\n", "\t", "\t", "p", "a", "s", "s", "\n">>,
     <<"w", "h", "i", "l", "e", " ", "a", ":", "\n", "\t", "f", "o", "r", " ", "i", " ", "i", "n", " ", "b", ":", "\n", "\t", "\t", "p", "a", "s", "s", "\n">>,
     <<"c", "l", "a", "s", "s", " ", "A", ":", "\n", "\t", "f", "u", "n", "c", " ", "f", "(", ")", ":", "\n", "\t", "\t", "p", "a", "s", "s", "\n">>,
     <<"m", "a", "t", "c", "h", " ", "a", ":", "\n", "1", ":", "\n", "\t", "p", "a", "s", "s", "\n">>}

FormatInputs == SmallPrograms \cup FormatPrograms

\* the text the next round starts from
CurrentText == IF fmt.texts = <<>> THEN input ELSE fmt.texts[Len(fmt.texts)]

FormatInit ==
    /\ input \in FormatInputs
    /\ mode = ErrorModePanic
    /\ lx = Replay(NewLexer(input))
    /\ out = <<>>
    /\ last = [kind |-> "none"]
    /\ phase = "text"
    /\ ps = NoParser
    /\ tree = NoTree
    /\ walk = NoWalk
    /\ lint = NoLint
    /\ \E path \in FilePaths :
           fmt = [path |-> path, texts |-> <<>>, failed |-> "none", ctx |-> NoCtx]
    /\ fnode = NoFn
    /\ job = NoJob

\* the caller calls ParseFile on the current text
CallParseFile ==
    /\ phase = "text"
    /\ Len(fmt.texts) < MaxRounds
    /\ \E r \in {ParseFile(fmt.path, CurrentText)} :
           /\ ps' = r.p
           /\ lx' = r.p.lexer
           /\ tree' = IF r.p.panicked THEN NoTree ELSE [returned |-> TRUE, ast |-> r.v]
           /\ phase' = IF r.p.panicked THEN "crashed" ELSE "parsed"
           /\ fmt' = [fmt EXCEPT !.failed = IF r.p.panicked THEN "parse" ELSE @]
    /\ UNCHANGED <<input, out, last, mode, walk, lint, fnode, job>>

\* no parse error: the caller calls FormatCode on the tree
CallFormatCode ==
    /\ phase = "parsed"
    /\ ps.errors = <<>>
    /\ \E r \in {FormatCode(tree.ast)} :
           /\ phase' = IF r.panicked THEN "crashed" ELSE "text"
           /\ fmt' = [fmt EXCEPT !.texts = IF r.panicked THEN @ ELSE Append(@, r.text),
                                 !.failed = IF r.panicked THEN "format" ELSE @,
                                 !.ctx = IF r.panicked THEN @ ELSE r.ctx]
    /\ UNCHANGED <<input, lx, out, last, mode, ps, tree, walk, lint, fnode, job>>

FormatNext == CallParseFile \/ CallFormatCode

FormatSpec == FormatInit /\ [][FormatNext]_vars

(***************************************************************************)
(* Runs of LintFiles: the caller's goroutine starts one worker goroutine   *)
(* per file path and waits for the wait group; every step of a goroutine   *)
(* between two synchronisation points is one action.  job.pc[w] is the     *)
(* statement worker w executes next, job.mu the worker holding the mutex   *)
(* (0: unlocked), job.wg the counter of the wait group.                    *)
(***************************************************************************)
MaxFiles == 3       \* longest list of file paths

PathLists == UNION {[1..n -> FilePaths] : n \in 0..MaxFiles}

\* what rule r1 may return for a tree: nothing, or one problem on line 1
RuleReports == {<<>>, <<[RuleName |-> "r1", Line |-> 1]>>}

Workers == DOMAIN job.filePaths

LintFilesInit ==
    /\ input = <<>>
    /\ lx = NewLexer(input)
    /\ out = <<>>
    /\ last = [kind |-> "none"]
    /\ mode = ErrorModePanic
    /\ phase = "lintfiles"
    /\ ps = NoParser
    /\ tree = NoTree
    /\ walk = NoWalk
    /\ lint = NoLint
    /\ fmt = NoFmt
    /\ fnode = NoFn
    /\ \E paths \in PathLists, reports \in [FilePaths -> RuleReports] :
           job = [made |-> TRUE,
                  filePaths |-> paths,
                  checksOf |-> [name \in FilePaths |->
                                   [r1 |-> reports[name], r2 |-> <<>>]],
                  main |-> IF paths = <<>> THEN "Wait" ELSE "loop",
                  started |-> 0,
                  wg |-> 0,
                  mu |-> 0,
                  pc |-> [w \in DOMAIN paths |-> "unborn"],
                  found |-> [w \in DOMAIN paths |-> [err |-> FALSE, problems |-> <<>>]],
                  results |-> <<>>,
                  returned |-> <<>>]

\* for _, filePath := range filePaths { wg.Add(1); go func(path string) {...}(filePath) }
StartWorker ==
    /\ phase = "lintfiles"
    /\ job.main = "loop"
    /\ job' = [job EXCEPT !.started = @ + 1,
                          !.wg = @ + 1,
                          !.pc[job.started + 1] = "LintFile",
                          !.main = IF job.started + 1 = Len(job.filePaths)
                                   THEN "Wait" ELSE "loop"]
    /\ UNCHANGED <<input, lx, out, last, mode, phase, ps, tree, walk, lint, fmt, fnode>>

\* problems, err := l.LintFile(path)
WorkerLintFile(w) ==
    /\ job.pc[w] = "LintFile"
    /\ job' = [job EXCEPT !.found[w] = LintFile(LintRules, DefaultConfig, job.checksOf,
                                                job.filePaths[w]),
                          !.pc[w] = "Lock"]
    /\ UNCHANGED <<input, lx, out, last, mode, phase, ps, tree, walk, lint, fmt, fnode>>

\* mu.Lock() taking the mutex whether it is held or not
WorkerLockUnchecked(w) ==
    /\ job.pc[w] = "Lock"
    /\ job' = [job EXCEPT !.mu = w, !.pc[w] = "store"]
    /\ UNCHANGED <<input, lx, out, last, mode, phase, ps, tree, walk, lint, fmt, fnode>>

\* mu.Lock(): blocks while another goroutine holds the mutex
WorkerLock(w) ==
    /\ job.pc[w] = "Lock"
    /\ job.mu = 0
    /\ job' = [job EXCEPT !.mu = w, !.pc[w] = "store"]
    /\ UNCHANGED <<input, lx, out, last, mode, phase, ps, tree, walk, lint, fmt, fnode>>

\* m[key] = value on a Go map
Store(m, key, value) ==
    [k \in DOMAIN m \cup {key} |-> IF k = key THEN value ELSE m[k]]

\* results[path] = problems, or the internal error when LintFile failed
WorkerStore(w) ==
    /\ job.pc[w] = "store"
    /\ job' = [job EXCEPT !.results =
                              Store(@, job.filePaths[w],
                                    IF job.found[w].err THEN InternalError
                                    ELSE job.found[w].problems),
                          !.pc[w] = "Unlock"]
    /\ UNCHANGED <<input, lx, out, last, mode, phase, ps, tree, walk, lint, fmt, fnode>>

\* the deferred mu.Unlock()
WorkerUnlock(w) ==
    /\ job.pc[w] = "Unlock"
    /\ job' = [job EXCEPT !.mu = 0, !.pc[w] = "Done"]
    /\ UNCHANGED <<input, lx, out, last, mode, phase, ps, tree, walk, lint, fmt, fnode>>

\* the deferred wg.Done(); the goroutine ends
WorkerDone(w) ==
    /\ job.pc[w] = "Done"
    /\ job' = [job EXCEPT !.wg = @ - 1, !.pc[w] = "ended"]
    /\ UNCHANGED <<input, lx, out, last, mode, phase, ps, tree, walk, lint, fmt, fnode>>

\* wg.Wait() returns when the counter is 0; return results, nil
WaitAndReturn ==
    /\ phase = "lintfiles"
    /\ job.main = "Wait"
    /\ job.wg = 0
    /\ job' = [job EXCEPT !.main = "returned", !.returned = job.results]
    /\ UNCHANGED <<input, lx, out, last, mode, phase, ps, tree, walk, lint, fmt, fnode>>

LintFilesNext ==
    \/ StartWorker
    \/ WaitAndReturn
    \/ \E w \in Workers : WorkerLintFile(w)
    \/ \E w \in Workers : WorkerLock(w)
    \/ \E w \in Workers : WorkerStore(w)
    \/ \E w \in Workers : WorkerUnlock(w)
    \/ \E w \in Workers : WorkerDone(w)

LintFilesSpec == LintFilesInit /\ [][LintFilesNext]_vars

(***************************************************************************)
(* Runs of an ast.Function: a caller holds a function made by NewFunction  *)
(* and calls AddStatement and AddSubStatement on it.  fnode.calls records  *)
(* the calls made.                                                         *)
(***************************************************************************)
MaxCalls == 4       \* calls made on the function

\* the statements the caller passes: nodes as the parser builds them
StatementPool ==
    {[kind |-> "PassStatement", Pos |-> [Line |-> 2, Column |-> 2, Offset |-> 10]],
     [kind |-> "BreakStatement", Pos |-> [Line |-> 3, Column |-> 2, Offset |-> 16]],
     [kind |-> "PassStatement", Pos |-> [Line |-> 4, Column |-> 2, Offset |-> 23]]}

FuncInit ==
    /\ input = <<>>
    /\ lx = NewLexer(input)
    /\ out = <<>>
    /\ last = [kind |-> "none"]
    /\ mode = ErrorModeStrict
    /\ phase = "func"
    /\ ps = NoParser
    /\ tree = NoTree
    /\ walk = NoWalk
    /\ lint = NoLint
    /\ fmt = NoFmt
    /\ fnode = [made |-> TRUE,
                f |-> NewFunction(<<"f">>, [Line |-> 1, Column |-> 2, Offset |-> 0]),
                calls |-> <<>>]
    /\ job = NoJob

CallAddStatement ==
    /\ phase = "func"
    /\ Len(fnode.calls) < MaxCalls
    /\ \E st \in StatementPool :
           fnode' = [fnode EXCEPT !.f = AddStatement(@, st),
                                  !.calls = Append(@, [op |-> "AddStatement", stmt |-> st])]
    /\ UNCHANGED <<input, lx, out, last, mode, phase, ps, tree, walk, lint, fmt, job>>

CallAddSubStatement ==
    /\ phase = "func"
    /\ Len(fnode.calls) < MaxCalls
    /\ \E st \in StatementPool :
           fnode' = [fnode EXCEPT !.f = AddSubStatement(@, st),
                                  !.calls = Append(@, [op |-> "AddSubStatement", stmt |-> st])]
    /\ UNCHANGED <<input, lx, out, last, mode, phase, ps, tree, walk, lint, fmt, job>>

FuncNext == CallAddStatement \/ CallAddSubStatement

FuncSpec == FuncInit /\ [][FuncNext]_vars

(***************************************************************************)
(* Properties of the lexer (runs of LexSpec)                               *)
(***************************************************************************)
\* C2: every call of NextToken returns a token without a runtime failure
\* (no index or slice out of range), whatever the input, also when the
\* input ends inside or right after the opening quote of a string or raw
\* string.
C2_NextTokenNeverFails == ~lx.panicked

\* C3: at the moment NextToken first returns EOF, as many INDENT as DEDENT
\* tokens have been returned and the indentation stack is back to [0].
C3_BalancedAtEof ==
    (out # <<>> /\ out[Len(out)].Type = "EOF" /\ Count(out, "EOF") = 1)
        => /\ Count(out, "INDENT") = Count(out, "DEDENT")
           /\ lx.indentStack = <<0>>

\* the width of the run of spaces (1 each) and tabs (4 each) that starts at
\* position i of the input (positions count from 0, as in the lexer)
RECURSIVE RunWidth(_)
RunWidth(i) ==
    IF i >= Len(input) THEN 0
    ELSE IF input[i + 1] = " " THEN 1 + RunWidth(i + 1)
    ELSE IF input[i + 1] = "\t" THEN 4 + RunWidth(i + 1)
    ELSE 0

\* the longest prefix of stack whose top does not exceed w
RECURSIVE PopWhileAbove(_, _)
PopWhileAbove(stack, w) ==
    IF stack # <<>> /\ stack[Len(stack)] > w
    THEN PopWhileAbove(SubSeq(stack, 1, Len(stack) - 1), w)
    ELSE stack

\* C4: on a newline, with w the width of the run of spaces and tabs behind
\* it and t the top of the indentation stack: w > t pushes w and queues
\* exactly one INDENT; w < t pops while the top exceeds w and queues exactly
\* one DEDENT per pop; w = t leaves the stack alone and queues neither.
C4_IndentationStep ==
    last.kind = "newline" =>
        LET w == RunWidth(last.pos + 1)
            t == last.before[Len(last.before)]
            indents == Count(lx.tokens, "INDENT")
            dedents == Count(lx.tokens, "DEDENT")
        IN  /\ w > t => /\ lx.indentStack = Append(last.before, w)
                        /\ indents = 1 /\ dedents = 0
            /\ w < t => /\ lx.indentStack = PopWhileAbove(last.before, w)
                        /\ dedents = Len(last.before) - Len(lx.indentStack)
                        /\ indents = 0
            /\ w = t => /\ lx.indentStack = last.before
                        /\ indents = 0 /\ dedents = 0

\* a newline that closed two indentation levels at once, the run behind it
\* holding a tab
C4_Witness ==
    /\ last.kind = "newline"
    /\ Len(last.before) - Len(lx.indentStack) = 2
    /\ Count(lx.tokens, "DEDENT") = 2
    /\ \E i \in 1..Len(last.before) : last.before[i] = TabWidth

\* one call of NextToken that returned, seen from the caller
Returned == ~lx'.panicked

\* what one returning call of NextToken does to the token queue
QueueStep ==
    /\ Len(out') = Len(out) + 1
    /\ lx.tokens # <<>> =>
          /\ out' = Append(out, Head(lx.tokens))
          /\ lx'.tokens = Tail(lx.tokens)
          /\ lx'.position = lx.position
          /\ out # <<>>
          /\ \/ out[Len(out)].Type = "NL"
             \/ last.kind = "queued"
    /\ (lx.tokens = <<>> /\ lx'.tokens # <<>>) =>
          /\ out'[Len(out')].Type = "NL"
          /\ \A i \in DOMAIN lx'.tokens :
                lx'.tokens[i].Type \in {"INDENT", "DEDENT", "ILLEGAL"}
    /\ out'[Len(out')].Type \in {"INDENT", "DEDENT"} => lx.tokens # <<>>

EofReturned == out # <<>> /\ out[Len(out)].Type = "EOF"

\* C18: once NextToken has returned EOF, every later call returns EOF too and
\* leaves the lexer as it was: read position, line, column, indentation
\* stack and queue of pending tokens.
C18_EofIsFinal ==
    [][EofReturned =>
          /\ Len(out') = Len(out) + 1
          /\ out'[Len(out')].Type = "EOF"
          /\ lx' = lx]_vars

\* EOF was returned twice while an indentation level was still open
C18_Witness ==
    /\ Count(out, "EOF") = 2
    /\ out[Len(out)].Type = "EOF"
    /\ out[Len(out) - 1].Type = "EOF"
    /\ Len(out) > 2
    /\ Len(lx.indentStack) > 1
    /\ ~lx.panicked

\* the last call scanned a newline whose width is smaller than the top of the
\* stack and equal to no level on it
AmbiguousDedent ==
    /\ last.kind = "newline"
    /\ RunWidth(last.pos + 1) < last.before[Len(last.before)]
    /\ \A i \in DOMAIN last.before : last.before[i] # RunWidth(last.pos + 1)

\* the token returned at index i of out is the ILLEGAL token of an ambiguous
\* dedent
InvalidIndentation(i) ==
    /\ out[i].Type = "ILLEGAL"
    /\ out[i].Literal = <<"invalid indentation">>

\* C19: a newline followed by a width w smaller than the top of the stack
\* and equal to no level queues one DEDENT per popped level and then exactly
\* one ILLEGAL token, leaves on the stack exactly the levels below w (w is
\* not pushed), and the lexer goes on: the call returns, and the token
\* returned after the ILLEGAL one is scanned from the text behind the
\* indentation.
C19_AmbiguousDedent ==
    /\ AmbiguousDedent =>
          LET w == RunWidth(last.pos + 1)
              popped == Len(last.before) - Len(lx.indentStack)
          IN  /\ ~lx.panicked
              /\ lx.indentStack = SelectSeq(last.before, LAMBDA level : level < w)
              /\ popped >= 1
              /\ Len(lx.tokens) = popped + 1
              /\ \A i \in 1..popped : lx.tokens[i].Type = "DEDENT"
              /\ lx.tokens[popped + 1].Type = "ILLEGAL"
              /\ lx.tokens[popped + 1].Literal = <<"invalid indentation">>
              /\ lx.ch \notin {" ", "\t"}
              /\ lx.position > last.pos
    /\ \A i \in DOMAIN out :
          (InvalidIndentation(i) /\ i < Len(out)) =>
              /\ out[i + 1].Type \notin {"INDENT", "DEDENT"}
              /\ out[i + 1].Offset >= out[i].Offset

\* a newline with text behind it closed the level 4 with the width 1
C19_Witness ==
    /\ AmbiguousDedent
    /\ last.before = <<0, TabWidth>>
    /\ lx.indentStack = <<0>>
    /\ Len(lx.tokens) = 2
    /\ lx.ch = "a"

(***************************************************************************)
(* Properties of the parser (runs of ParseSpec)                            *)
(***************************************************************************)
\* C1: for every input and in both error modes Parse runs to completion and
\* returns a tree whose RootClass is not nil, is the first element of
\* Classes and is named "global scope".
C1_ParseCompletes ==
    /\ phase # "crashed"
    /\ phase = "done" =>
          /\ tree.returned
          /\ tree.ast.RootClass # Nil
          /\ tree.ast.Classes # <<>>
          /\ tree.ast.Classes[1] = tree.ast.RootClass
          /\ tree.ast.RootClass.Name = GlobalScopeName

\* the statements of the first function of the tree Parse returns for text
FunctionStatements(ast) ==
    IF ast.RootClass.Functions = <<>> THEN <<>>
    ELSE IF ast.RootClass.Functions[1].kind # "Function" THEN <<>>
    ELSE ast.RootClass.Functions[1].Statements

CleanStatements ==
    Bind(NewParserWithOptions(FunctionText(FunctionLines), ErrorModePanic), LAMBDA p :
        FunctionStatements(Parse(p).v))

\* C5: in panic mode, for a function of several statements one of which has
\* a single syntax error, Parse records exactly one error and the function's
\* statement list holds every other statement, parsed exactly as it is
\* parsed when the error is absent.
C5_ErrorContainment ==
    \A e \in ErrorPrograms :
        (phase = "done" /\ mode = ErrorModePanic /\ input = e.text) =>
            /\ Len(ps.errors) = 1
            /\ \A j \in DOMAIN CleanStatements :
                  j # e.stmt =>
                      CleanStatements[j] \in Range(FunctionStatements(tree.ast))

\* C6: in panic mode, when recovery stops on a statement-starting keyword,
\* the statement that begins at this keyword is parsed by its own routine:
\* the keyword is not skipped.
C6_ResumeAtKeyword ==
    (phase = "done" /\ mode = ErrorModePanic) =>
        \A i \in DOMAIN ps.syncStops :
            ps.syncStops[i].Type \in SyncKeywords =>
                ps.syncStops[i] \in Range(ps.dispatched)

\* C7: in strict mode no error is appended after the first one: Errors() has
\* length at most 1 once Parse has returned.
C7_StrictSingleError ==
    (phase = "done" /\ mode = ErrorModeStrict) => Len(ps.errors) <= 1

\* an expression fully parenthesised, positions left out
RECURSIVE Shape(_)
Shape(e) ==
    CASE e.kind \in {"Identifier", "StringLiteral"} -> e.Value
      [] e.kind = "NumberLiteral" -> e.Original
      [] e.kind = "BooleanLiteral" ->
            IF e.Value THEN <<"t", "r", "u", "e">> ELSE <<"f", "a", "l", "s", "e">>
      [] e.kind = "InfixExpression" ->
            <<"(">> \o Shape(e.Left) \o Sp \o e.Operator \o Sp \o Shape(e.Right)
                \o <<")">>
      [] OTHER -> <<"?">>

\* a op1 (b op2 c) when op2 binds strictly tighter than op1, else (a op1 b) op2 c
Grouping(e) ==
    IF precedences(e.op2.type) > precedences(e.op1.type)
    THEN <<"(">> \o e.x[1] \o Sp \o e.op1.lit \o Sp \o <<"(">> \o e.x[2] \o Sp
             \o e.op2.lit \o Sp \o e.x[3] \o <<")", ")">>
    ELSE <<"(", "(">> \o e.x[1] \o Sp \o e.op1.lit \o Sp \o e.x[2] \o <<")">> \o Sp
             \o e.op2.lit \o Sp \o e.x[3] \o <<")">>

\* the expression of the only statement of the global scope, Nil if the
\* global scope is not one expression statement
OnlyExpression ==
    LET stmts == tree.ast.RootClass.Statements
    IN  IF Len(stmts) = 1 /\ stmts[1].kind = "ExpressionStatement"
        THEN stmts[1].Expression ELSE Nil

\* C8: a op1 b op2 c parses as a op1 (b op2 c) when op2 has strictly higher
\* precedence than op1 and as (a op1 b) op2 c otherwise, for all binary
\* operators the infix loop accepts.
C8_PrecedenceGrouping ==
    \A e \in ExprPrograms :
        (phase = "done" /\ input = e.text) =>
            /\ ps.errors = <<>>
            /\ Shape(OnlyExpression) = Grouping(e)

\* 1 + 2 * 3 has been parsed, in panic mode, as 1 + (2 * 3)
C8_Witness ==
    /\ phase = "done"
    /\ mode = ErrorModePanic
    /\ input = <<"1", " ", "+", " ", "2", " ", "*", " ", "3">>
    /\ OnlyExpression.kind = "InfixExpression"
    /\ OnlyExpression.Operator = <<"+">>
    /\ OnlyExpression.Right.kind = "InfixExpression"
    /\ OnlyExpression.Right.Operator = <<"*">>

\* C9: X if C else Y parses without error into a conditional expression
\* with true-value X, condition C and false-value Y; 1 + 2 if true else 3
\* has the true-value (1 + 2).
C9_TrailingConditional ==
    \A e \in CondPrograms :
        (phase = "done" /\ input = e.text) =>
            /\ ps.errors = <<>>
            /\ OnlyExpression.kind = "ConditionalExpression"
            /\ Shape(OnlyExpression.ValueIfTrue) = e.xs
            /\ Shape(OnlyExpression.Condition) = e.c
            /\ Shape(OnlyExpression.ValueIfFalse) = e.y

\* a statement routine was entered on the token of type first at offset at
Dispatched(at, first) ==
    \E i \in DOMAIN ps.dispatched :
        ps.dispatched[i].Offset = at /\ ps.dispatched[i].Type = first

\* C10: two consecutive well-formed statements S1, S2 of a statement list
\* are each parsed by their own routine, without error: no token of S2 is
\* skipped or absorbed by S1's routine.
C10_ConsecutiveStatements ==
    \A e \in PairPrograms :
        (phase = "done" /\ input = e.text) =>
            /\ ps.errors = <<>>
            /\ Dispatched(e.s1at, e.s1first)
            /\ Dispatched(e.s2at, e.s2first)

\* C11: a function header followed by a newline and an indented body is
\* parsed without error whatever kind of statement begins the body, and that
\* statement is the first element of the function's Statements.
C11_AnyBodyStart ==
    \A e \in BodyPrograms :
        (phase = "done" /\ input = e.text) =>
            /\ ps.errors = <<>>
            /\ FunctionStatements(tree.ast) # <<>>
            /\ FunctionStatements(tree.ast)[1].kind = e.kind

\* C12: after Parse of an error-free source, tree.Classes lists the root
\* scope followed by every class defined in the source exactly once, nested
\* classes included.
C12_ClassesListed ==
    \A e \in ClassPrograms :
        (phase = "done" /\ input = e.text /\ ps.errors = <<>>) =>
            /\ Len(tree.ast.Classes) = 1 + Cardinality(e.names)
            /\ tree.ast.Classes[1] = tree.ast.RootClass
            /\ \A n \in e.names :
                  Cardinality({i \in 2..Len(tree.ast.Classes) :
                                  tree.ast.Classes[i].Name = n}) = 1

(***************************************************************************)
(* Properties of ast.Walk (runs of WalkSpec)                               *)
(***************************************************************************)
Front(path) == SubSeq(path, 1, Len(path) - 1)

\* path p comes before path q in document order (a prefix first)
RECURSIVE Before(_, _)
Before(p, q) ==
    IF p = <<>> THEN q # <<>>
    ELSE IF q = <<>> THEN FALSE
    ELSE IF Head(p) # Head(q) THEN Head(p) < Head(q)
    ELSE Before(Tail(p), Tail(q))

\* the nodes visited directly below the node at path, in the order of the visits
RECURSIVE VisitedBelow(_, _)
VisitedBelow(log, path) ==
    IF log = <<>> THEN <<>>
    ELSE (IF Head(log).path # <<>> /\ Front(Head(log).path) = path
          THEN <<Head(log).node>> ELSE <<>>) \o VisitedBelow(Tail(log), path)

\* elif i and the ones after it, each condition followed by its body, then
\* the else body
RECURSIVE ElifChain(_, _)
ElifChain(n, i) ==
    IF i > Len(n.ElseCondition) THEN n.Alternative
    ELSE <<n.ElseCondition[i]>> \o n.ElseBranches[i] \o ElifChain(n, i + 1)

AllFindings == lint.checks.r1 \o lint.checks.r2

\* the disable and enable directives naming rule that stand above line
TogglesAbove(rule, line) ==
    {i \in DOMAIN lint.directives :
        /\ lint.directives[i].Type \in {DirectiveDisable, DirectiveEnable}
        /\ rule \in Range(lint.directives[i].Rules)
        /\ lint.directives[i].Line < line}

\* the nearest of them is a disable
NearestIsDisable(rule, line) ==
    \E i \in TogglesAbove(rule, line) :
        /\ \A j \in TogglesAbove(rule, line) : j <= i
        /\ lint.directives[i].Type = DirectiveDisable

\* an ignore directive naming the rule of f stands on the line before f
IgnoredByDirective(f) ==
    \E i \in DOMAIN lint.directives :
        /\ lint.directives[i].Type = DirectiveIgnore
        /\ f.RuleName \in Range(lint.directives[i].Rules)
        /\ f.Line = lint.directives[i].Line + 1

\* C14: disable and enable directives are positional: a finding of rule R at
\* line L is suppressed by them exactly when the nearest disable or enable
\* directive naming R above line L is a disable; findings above a disable
\* and findings below a later enable are reported.
C14_PositionalToggles ==
    phase = "linted" =>
        lint.problems =
            SelectSeq(AllFindings,
                      LAMBDA f : /\ ~IgnoredByDirective(f)
                                 /\ ~NearestIsDisable(f.RuleName, f.Line))

RECURSIVE IsSubSeq(_, _)
IsSubSeq(s, t) ==
    IF s = <<>> THEN TRUE
    ELSE IF t = <<>> THEN FALSE
    ELSE IF Head(s) = Head(t) THEN IsSubSeq(Tail(s), Tail(t))
    ELSE IsSubSeq(s, Tail(t))

WithoutIgnores ==
    SelectSeq(lint.directives, LAMBDA d : d.Type # DirectiveIgnore)

C16_Idempotent ==
    /\ fmt.failed # "format"
    /\ fmt.texts # <<>> =>
          /\ fmt.failed = "none"
          /\ phase = "parsed" => ps.errors = <<>>
    /\ Len(fmt.texts) >= 2 => fmt.texts[2] = fmt.texts[1]

\* the tokens NextToken has handed to the parser so far
Consumed == SubSeq(ps.lexer.tape, 1, ps.lexer.calls)

\* C20: whenever the tokens Parse consumed hold at least one ILLEGAL token,
\* Errors() is not empty after Parse has returned.
C20_IllegalReported ==
    (phase = "done" /\ \E k \in DOMAIN Consumed : Consumed[k].Type = "ILLEGAL")
        => ps.errors # <<>>

(***************************************************************************)
(* Further properties of the lexer (runs of LexSpec)                       *)
(***************************************************************************)
\* the index in text of the quote that closes a literal whose body starts at
\* index i (a backslash escapes the character after it), or 0 when the text
\* ends first
RECURSIVE ClosingQuote(_, _, _)
ClosingQuote(text, i, quote) ==
    IF i > Len(text) THEN 0
    ELSE IF text[i] = "\\" THEN ClosingQuote(text, i + 2, quote)
    ELSE IF text[i] = quote THEN i
    ELSE ClosingQuote(text, i + 1, quote)

\* the i-th returned token starts at a quote that no later quote closes
Unterminated(i) ==
    /\ out[i].Offset < Len(input)
    /\ input[out[i].Offset + 1] \in {"\"", "'"}
    /\ out[i].Literal # <<>>
    /\ out[i].Literal[1] = input[out[i].Offset + 1]
    /\ ClosingQuote(input, out[i].Offset + 2, input[out[i].Offset + 1]) = 0

\* C21: a string literal whose closing quote is missing before the end of the
\* input is returned as an ILLEGAL token, not as a STRING token.
C21_UnterminatedStringIllegal ==
    \A i \in DOMAIN out : Unterminated(i) => out[i].Type = "ILLEGAL"

\* the number of lines of a text: one more than its newline characters
NumLines(text) == 1 + Cardinality({i \in DOMAIN text : text[i] = "\n"})

\* C24: every token lies within the source: its Line is between 1 and the
\* number of lines of the input, and its Offset is at least 0 and below the
\* length of the input (the EOF token, which stands for the end of the input,
\* is allowed the offset just behind the last character).
C24_TokensWithinSource ==
    \A i \in DOMAIN out :
        /\ 1 <= out[i].Line
        /\ out[i].Line <= NumLines(input)
        /\ 0 <= out[i].Offset
        /\ out[i].Offset < Len(input) \/ (out[i].Type = "EOF" /\ out[i].Offset = Len(input))

(***************************************************************************)
(* Further properties of the parser (runs of ParseSpec)                    *)
(***************************************************************************)
\* the token types on which parseExpression builds a prefix expression
PrefixStart == {"IDENT", "INT", "FLOAT", "STRING", "TRUE", "FALSE", "NULL",
                "LPAREN", "MINUS", "BANG"}

\* tokens k-2 .. k+1 of the tape are `var NAME =` (or const, or :=) followed
\* by a token that cannot start an expression, and parseStatement was
\* entered on the var / const token
MissingValue(k) ==
    /\ k - 2 \in DOMAIN ps.lexer.tape
    /\ k + 1 \in DOMAIN ps.lexer.tape
    /\ ps.lexer.tape[k - 2].Type \in {"VAR", "CONST"}
    /\ ps.lexer.tape[k - 1].Type = "IDENT"
    /\ ps.lexer.tape[k].Type \in {"ASSIGN", "COLONASSIGN"}
    /\ ps.lexer.tape[k + 1].Type \notin PrefixStart
    /\ \E d \in DOMAIN ps.dispatched : ps.dispatched[d] = ps.lexer.tape[k - 2]

\* C22: a declaration whose '=' (or ':=') is followed by a token that cannot
\* start an expression leaves an error with that token's line and column.
C22_MissingValueReported ==
    (phase = "done" /\ ~ps.panicked) =>
        \A k \in DOMAIN ps.lexer.tape :
            MissingValue(k) =>
                \E e \in DOMAIN ps.errors :
                    /\ ps.errors[e].Line = ps.lexer.tape[k + 1].Line
                    /\ ps.errors[e].Column = ps.lexer.tape[k + 1].Column

\* the offset just behind the last token of the chain (the closing ')')
ChainEnd == Len(ChainText) - 1

\* C23: the chain a.b[0](x) is parsed as one expression nested left to right
\* (the call applied to the index applied to the attribute access on a), and
\* no token of the chain after the first starts a statement of its own.
C23_PostfixChain ==
    (phase = "done" /\ input = ChainText) =>
        /\ \A d \in DOMAIN ps.dispatched :
              \/ ps.dispatched[d].Offset = 0
              \/ ps.dispatched[d].Offset >= ChainEnd
        /\ tree.ast.RootClass # Nil
        /\ Len(tree.ast.RootClass.Statements) = 1
        /\ tree.ast.RootClass.Statements[1].kind = "ExpressionStatement"
        /\ tree.ast.RootClass.Statements[1].Expression.kind = "CallExpression"
        /\ Len(tree.ast.RootClass.Statements[1].Expression.Arguments) = 1
        /\ tree.ast.RootClass.Statements[1].Expression.Function.kind = "InfixExpression"
        /\ tree.ast.RootClass.Statements[1].Expression.Function.Operator = <<"[">>
        /\ tree.ast.RootClass.Statements[1].Expression.Function.Left.kind = "InfixExpression"
        /\ tree.ast.RootClass.Statements[1].Expression.Function.Left.Operator = <<".">>
        /\ tree.ast.RootClass.Statements[1].Expression.Function.Left.Left.kind = "Identifier"

(***************************************************************************)
(* Properties of ast.Function (runs of FuncSpec)                           *)
(***************************************************************************)
\* C25 as stated: after any sequence of AddStatement and AddSubStatement
\* calls Statements and SubStatements hold the same statements in the same
\* order.
C25_ListsInSync == fnode.f.Statements = fnode.f.SubStatements

\* the statements passed by the calls made, in call order
Passed(ops) ==
    [i \in DOMAIN SelectSeq(fnode.calls, LAMBDA c : c.op \in ops) |->
        SelectSeq(fnode.calls, LAMBDA c : c.op \in ops)[i].stmt]

\* C25 as amended: SubStatements holds every statement passed to either
\* call, in call order, and Statements holds exactly those passed to
\* AddStatement, in call order; so nothing is ever removed, Statements is a
\* subsequence of SubStatements, and the two lists are equal as long as only
\* AddStatement was called.
C25_StatementsWithinSubStatements ==
    /\ fnode.f.SubStatements = Passed({"AddStatement", "AddSubStatement"})
    /\ fnode.f.Statements = Passed({"AddStatement"})
    /\ (\A i \in DOMAIN fnode.calls : fnode.calls[i].op = "AddStatement")
           => fnode.f.Statements = fnode.f.SubStatements

\* both calls were made, the same statement was passed twice, and the lists
\* differ
C25_Witness ==
    /\ Len(fnode.calls) = MaxCalls
    /\ fnode.calls[1].op = "AddStatement"
    /\ fnode.calls[2].op = "AddSubStatement"
    /\ fnode.calls[3].op = "AddStatement"
    /\ fnode.calls[3].stmt = fnode.calls[1].stmt
    /\ Len(fnode.f.Statements) < Len(fnode.f.SubStatements)

\* C26: in every state the lexer reaches the indentation stack is non-empty,
\* its bottom entry is 0, and its entries strictly increase from bottom to top.
C26_IndentStackShape ==
    /\ Len(lx.indentStack) >= 1
    /\ lx.indentStack[1] = 0
    /\ \A i \in 1..(Len(lx.indentStack) - 1) :
           lx.indentStack[i] < lx.indentStack[i + 1]

\* a newline has popped a stack of three levels, pushed one after the other,
\* back to its bottom entry
C26_Witness ==
    /\ last.kind = "newline"
    /\ Len(last.before) = 3
    /\ lx.indentStack = <<0>>
    /\ Len(lx.tokens) >= 1

(***************************************************************************)
(* Further properties of ast.Walk (runs of WalkSpec)                       *)
(***************************************************************************)
\* the node n and the nodes below it: what its fields hold, field by field
RECURSIVE NodesBelow(_)
NodesBelow(n) ==
    {n} \cup UNION {NodesBelow(Children(n)[i]) : i \in DOMAIN Children(n)}

StatementKinds ==
    {"VarStatement", "ReturnStatement", "ExpressionStatement", "PassStatement",
     "BreakStatement", "ContinueStatement", "IfStatement", "ForStatement",
     "WhileStatement", "MatchStatement"}

\* the number of Visit calls made on node n
Visits(n) == Cardinality({i \in DOMAIN walk.log : walk.log[i].node = n})

\* C27: when Walk has walked a tree returned by Parse with a visitor that
\* never prunes, Visit was called exactly once on each class, function and
\* statement node of the tree.
C27_VisitedOnce ==
    (/\ phase = "walk"
     /\ walk.stack = <<>>
     /\ \A i \in DOMAIN walk.log : walk.log[i].keep) =>
        \A n \in NodesBelow(tree.ast) :
            n.kind \in {"Class", "Function"} \cup StatementKinds => Visits(n) = 1

(***************************************************************************)
(* Further properties of the formatter (runs of FormatSpec)                *)
(***************************************************************************)
\* what FormatCode returns for ParseFile(path, content)
FormattedAs(path, content) ==
    Bind(ParseFile(path, content), LAMBDA r :
    IF r.p.panicked THEN [panicked |-> TRUE, text |-> <<>>]
    ELSE Bind(FormatCode(r.v), LAMBDA t : [panicked |-> t.panicked, text |-> t.text]))

\* text starts with the characters of prefix
StartsWith(text, prefix) ==
    Len(text) >= Len(prefix) /\ SubSeq(text, 1, Len(prefix)) = prefix

\* C28: the text FormatCode returns for ParseFile(path, text) is the same
\* for every file path, and the synthetic root class is never emitted as a
\* line "class <name>:".
C28_PathIndependent ==
    (phase = "text" /\ Len(fmt.texts) = 1) =>
        /\ \A path \in FilePaths :
              FormattedAs(path, input) = [panicked |-> FALSE, text |-> fmt.texts[1]]
        /\ ~StartsWith(fmt.texts[1], CLASS_TEXT \o <<" ">> \o Base(fmt.path) \o <<":">>)

\* C30: while FormatAST runs IndentLevel is never negative, every visit of a
\* class, function, if, for, while or match node returns with IndentLevel equal
\* to its value at entry, and IndentLevel is 0 when FormatAST returns.
C30_IndentBalanced ==
    fmt.ctx.made =>
        /\ \A i \in DOMAIN fmt.ctx.levels : fmt.ctx.levels[i] >= 0
        /\ \A i \in DOMAIN fmt.ctx.frames :
              fmt.ctx.frames[i].exit = fmt.ctx.frames[i].entry
        /\ fmt.ctx.IndentLevel = 0

\* FormatAST returned after a visit of an if statement inside a function: the
\* level went up to 2 and came down to 0, the visit of the if statement was
\* entered at level 1 and the visit of the function at level 0
C30_Witness ==
    /\ fmt.ctx.made
    /\ \E i \in DOMAIN fmt.ctx.levels : fmt.ctx.levels[i] = 2
    /\ \E i, j \in DOMAIN fmt.ctx.frames :
          /\ i < j
          /\ fmt.ctx.frames[i].kind = "IfStatement"
          /\ fmt.ctx.frames[i].entry = 1
          /\ fmt.ctx.frames[j].kind = "Function"
          /\ fmt.ctx.frames[j].entry = 0

(***************************************************************************)
(* Properties of LintFiles (runs of LintFilesSpec)                         *)
(***************************************************************************)
\* the workers between mu.Lock() and the deferred mu.Unlock()
Writers == {w \in Workers : job.pc[w] \in {"store", "Unlock"}}

\* C29: LintFiles returns only after every worker has ended; at most one
\* worker at a time is at the write of the result map, and it holds the
\* mutex; and the map returned holds exactly one entry per distinct input
\* path, whose value is what LintFile gives for that path, whatever the
\* schedule was.
C29_LintFilesSynchronised ==
    /\ job.main = "returned" => \A w \in Workers : job.pc[w] = "ended"
    /\ Cardinality(Writers) <= 1
    /\ \A w \in Writers : job.mu = w
    /\ job.main = "returned" =>
          /\ DOMAIN job.returned = Range(job.filePaths)
          /\ \A path \in DOMAIN job.returned :
                job.returned[path] =
                    LintFile(LintRules, DefaultConfig, job.checksOf, path).problems

\* LintFiles returned for three paths, the first and the third the same,
\* whose two files the rule reports differently on
C29_Witness ==
    /\ job.main = "returned"
    /\ Len(job.filePaths) = MaxFiles
    /\ job.filePaths[1] = job.filePaths[3]
    /\ job.filePaths[1] # job.filePaths[2]
    /\ job.returned[job.filePaths[1]] # job.returned[job.filePaths[2]]
    /\ Cardinality(DOMAIN job.returned) = 2
====
